---- MODULE Spec2Model ----
(***************************************************************************)
(* Access groups of the ayon backend: the process-wide registry            *)
(* AccessGroups.access_groups, its reload from the database                *)
(* (AccessGroups.load), the merge of several access groups into one        *)
(* permission set (AccessGroups.combine) and the role endpoints that save  *)
(* and delete access groups and reload the registry.  Settings of the      *)
(* addons: the bundle that get_all_settings resolves for a request, the    *)
(* entries of its response, and the override layers that the addon merges  *)
(* into its settings.                                                      *)
(***************************************************************************)
EXTENDS Integers, Sequences, FiniteSets, TLC

VARIABLES
    access_groups,  \* AccessGroups.access_groups: (name, project) -> Permissions
    store,          \* the access_groups tables of the database, all scopes
    phase,          \* the server: "starting", "running" or "failed"
    req,            \* the tasks serving requests: one record per task
    issued,         \* number of requests started so far
    names,          \* argument access_group_names of the last combine call
    project,        \* argument project_name of the last combine call
    result,         \* Permissions returned by the last combine call
    called,         \* whether combine has been called
    projects,       \* table projects: name -> data (with or without "bundle")
    bundles,        \* table bundles: name -> flags and addon versions
    library,        \* AddonLibrary: the addons installed on the server
    settings,       \* tables settings: override documents of the addons
    args,           \* arguments of the settings request
    response,       \* what the last settings request returned
    calls,          \* number of settings requests served so far
    now,            \* time.time()
    users,          \* table users: name -> record with the API keys
    sessions,       \* Session store: token -> user of the session
    auth,           \* the last dep_current_user call: headers and outcome
    requests,       \* number of dep_current_user calls so far
    worker_task,    \* BackgroundWorker.task: <<the asyncio task>>, <<>> if None
    shutting_down,  \* BackgroundWorker.shutting_down
    oneshot,        \* BackgroundWorker.oneshot
    suppresses,     \* run() catches CancelledError and goes on
    caller,         \* the coroutine that calls shutdown(): its position
    starts,         \* number of start() calls so far
    pool,           \* Postgres.pool is set
    connected,      \* Redis.connected
    postgres_up,    \* PostgreSQL accepts connections
    redis_up,       \* Redis accepts connections
    extensions,     \* argument extensions of ayon_init
    init_pc,        \* position of ayon_init
    attempts,       \* number of failed connection attempts so far
    steps,          \* what ayon_init has done, in order
    addon_versions, \* the addon versions of the library at startup
    library_restart_requested, \* library.restart_requested
    startup_pc,     \* position of startup_event: stage, index, start_event
    restart_requested,\* local restart_requested of startup_event
    bad_addons,     \* local bad_addons of startup_event
    unloaded,       \* versions unloaded from the library, with the reason
    events          \* what startup_event has done, in order

rolesVars ==
    <<access_groups, store, phase, req, issued, names, project, result, called>>

settingsVars == <<projects, bundles, library, settings, args, response, calls>>

authVars == <<now, users, sessions, auth, requests>>

workerVars == <<worker_task, shutting_down, oneshot, suppresses, caller, starts>>

initVars ==
    <<pool, connected, postgres_up, redis_up, extensions, init_pc, attempts,
      steps>>

startupVars ==
    <<addon_versions, library_restart_requested, startup_pc, restart_requested,
      bad_addons, unloaded, events>>

serverVars == <<authVars, workerVars, initVars, startupVars>>

vars ==
    <<access_groups, store, phase, req, issued, names, project, result, called,
      projects, bundles, library, settings, args, response, calls,
      now, users, sessions, auth, requests,
      worker_task, shutting_down, oneshot, suppresses, caller, starts,
      pool, connected, postgres_up, redis_up, extensions, init_pc, attempts,
      steps,
      addon_versions, library_restart_requested, startup_pc,
      restart_requested, bad_addons, unloaded, events>>

\* No request is authenticated in the runs of the other parts.
AuthIdle ==
    /\ now = 0
    /\ users = <<>>
    /\ sessions = <<>>
    /\ auth = <<>>
    /\ requests = 0

\* No background worker exists in the runs of the other parts.
WorkerIdle ==
    /\ worker_task = <<>>
    /\ shutting_down = FALSE
    /\ oneshot = FALSE
    /\ suppresses = FALSE
    /\ caller = "none"
    /\ starts = 0

\* ayon_init has returned in the runs of the other parts.
InitIdle ==
    /\ pool = TRUE
    /\ connected = TRUE
    /\ postgres_up = TRUE
    /\ redis_up = TRUE
    /\ extensions = TRUE
    /\ init_pc = "returned"
    /\ attempts = 0
    /\ steps = <<>>

\* The library has no addon to set up in the runs of the other parts.
StartupIdle ==
    /\ addon_versions = <<>>
    /\ library_restart_requested = FALSE
    /\ startup_pc = [at |-> "returned", i |-> 0, start_event |-> "None"]
    /\ restart_requested = FALSE
    /\ bad_addons = <<>>
    /\ unloaded = <<>>
    /\ events = <<>>

ServerIdle == AuthIdle /\ WorkerIdle /\ InitIdle /\ StartupIdle

\* The settings endpoints serve no request in the runs of the access groups.
SettingsIdle ==
    /\ projects = <<>>
    /\ bundles = <<>>
    /\ library = <<>>
    /\ settings = <<>>
    /\ args = <<>>
    /\ response = <<>>
    /\ calls = 0

(***************************************************************************)
(* Bounds of the model.                                                    *)
(***************************************************************************)
\* Longest list of access group names handed to combine.
MaxNames == 3
\* Number of distinct list items (folder access entries, attribute names,
\* endpoint names, addon names) a stored access group draws from.
NumValues == 2
\* Number of requests issued in one run of the server.
MaxRequests == 2

GroupNames == {"a", "b", "c"}
\* The tasks that serve requests at the same time.
Tasks == {1, 2}
ProjectNames == {"p1"}
Scopes == {"_"} \cup ProjectNames
Values == 1..NumValues

NoKey == <<>>

(***************************************************************************)
(* Permissions: one category model per field.  Python lists are modelled   *)
(* by the set of their items: combine builds every merged list with        *)
(* list(set(..)), whose order is unspecified.  An item of a folder access  *)
(* list is a FolderAccess object in a Permissions object and a dict in the *)
(* output of .dict(); the other lists hold strings.                        *)
(***************************************************************************)
FolderCategories == {"create", "read", "update", "delete"}
AttribCategories == {"attrib_read", "attrib_write"}
SettingsCategories == {"project_settings", "studio_settings"}
Categories ==
    FolderCategories \cup AttribCategories \cup {"endpoints"} \cup SettingsCategories

\* The list field of a category model.
ListField(perm_name) ==
    CASE perm_name \in FolderCategories -> "access_list"
      [] perm_name \in AttribCategories -> "attributes"
      [] perm_name = "endpoints" -> "endpoints"
      [] OTHER -> "addons"

\* A category model as a mapping field -> value.
Category(perm_name, enabled, items, anatomy_update) ==
    ("enabled" :> enabled) @@ (ListField(perm_name) :> items) @@
    (IF perm_name = "project_settings"
        THEN ("anatomy_update" :> anatomy_update) ELSE <<>>)

\* dict.get(key, default)
Get(d, key, default) == IF key \in DOMAIN d THEN d[key] ELSE default

\* FolderAccess(**normalize_to_dict(r)): the FolderAccess object of an item
\* that is a dict or a FolderAccess object.
FolderAccess(r) == <<"FolderAccess", r[2]>>

\* The items of a list as Permissions holds them.
Parsed(perm_name, items) ==
    IF perm_name \in FolderCategories
        THEN {FolderAccess(r) : r \in items} ELSE items

\* The items of a list as .dict() gives them.
Dumped(perm_name, items) ==
    IF perm_name \in FolderCategories
        THEN {<<"dict", r[2]>> : r \in items} ELSE items

\* A category model built with no arguments: disabled, nothing listed.
DefaultCategory(perm_name) == Category(perm_name, FALSE, {}, FALSE)

\* Permissions(**result): every field result lacks takes its default, and so
\* does every field a category dict of result lacks.
Permissions(d) ==
    [perm_name \in Categories |->
        IF perm_name \in DOMAIN d
            THEN Category(perm_name,
                          Get(d[perm_name], "enabled", FALSE),
                          Parsed(perm_name,
                                 Get(d[perm_name], ListField(perm_name), {})),
                          Get(d[perm_name], "anatomy_update", FALSE))
            ELSE DefaultCategory(perm_name)]

\* Permissions.dict(): a dict of dicts, a copy.
Dict(permissions) ==
    [perm_name \in Categories |->
        [permissions[perm_name] EXCEPT
            ![ListField(perm_name)] = Dumped(perm_name, @)]]

\* The items a stored list holds for the item numbers xs.
Items(perm_name, xs) ==
    IF perm_name \in FolderCategories
        THEN {<<"FolderAccess", x>> : x \in xs} ELSE xs

\* A stored access group in which every category has the same switch and
\* the same items.
MkPermissions(enabled, items, anatomy_update) ==
    [perm_name \in Categories |->
        Category(perm_name, enabled, Items(perm_name, items), anatomy_update)]

(***************************************************************************)
(* AccessGroups.combine                                                    *)
(***************************************************************************)
\* Lines 65-70: the registry key combine reads for one name.
Resolve(reg, access_group_name, project_name) ==
    IF <<access_group_name, project_name>> \in DOMAIN reg
        THEN <<access_group_name, project_name>>
    ELSE IF <<access_group_name, "_">> \in DOMAIN reg
        THEN <<access_group_name, "_">>
    ELSE NoKey

\* A faulty variant of ModelDict: result is the registry's own object.
ModelDictShared(key) == key

\* Line 73, access_group.dict(): a new dict that shares nothing with the
\* registry entry.  The value is the registry key whose object the dict is,
\* NoKey for a dict of its own.
ModelDict(key) == NoKey

\* A write into result: it reaches the registry only if result is the
\* object of a registry entry.
Write(st, new_result) ==
    [st EXCEPT !.result = new_result,
               !.reg = IF st.ref = NoKey THEN @
                       ELSE [@ EXCEPT ![st.ref] = Permissions(new_result)]]

\* A faulty variant of Seed: studio_settings stays in the seed at project scope.
SeedKeepStudio(st, key, project_name) ==
    [st EXCEPT !.result = Dict(st.reg[key]), !.ref = ModelDict(key),
               !.seeded = TRUE]

\* Lines 72-76: the first resolved group seeds the result.
Seed(st, key, project_name) ==
    LET seeded == [st EXCEPT !.result = Dict(st.reg[key]),
                             !.ref = ModelDict(key), !.seeded = TRUE]
    IN  IF project_name # "_"
            THEN Write(seeded,
                       [perm_name \in DOMAIN seeded.result \ {"studio_settings"}
                            |-> seeded.result[perm_name]])
            ELSE seeded

\* A faulty variant of MergedCategory: a later group re-enables a disabled category.
MergedCategoryReenable(current, perm_name, value) ==
    IF ~value.enabled THEN "enabled" :> FALSE
    ELSE LET field == ListField(perm_name)
         IN  (field :> (Parsed(perm_name, Get(current, field, {}))
                            \cup value[field]))
             @@ [current EXCEPT !["enabled"] = TRUE]

\* A faulty variant of MergedCategory: the merged list is the later group's list.
MergedCategoryReplace(current, perm_name, value) ==
    IF ~value.enabled THEN "enabled" :> FALSE
    ELSE IF ~current["enabled"] THEN current
    ELSE LET field == ListField(perm_name)
         IN  (field :> value[field]) @@ current

\* A faulty variant of MergedCategory: anatomy_update is the later group's.
MergedCategoryLastAnatomy(current, perm_name, value) ==
    IF ~value.enabled THEN "enabled" :> FALSE
    ELSE IF ~current["enabled"] THEN current
    ELSE LET field == ListField(perm_name)
             merged == (field :> (Parsed(perm_name, Get(current, field, {}))
                                      \cup value[field]))
                       @@ current
         IN  IF perm_name = "project_settings"
                 THEN ("anatomy_update" :> value["anatomy_update"]) @@ merged
                 ELSE merged

\* Lines 85-124: result[perm_name] after one category of a later group.
MergedCategory(current, perm_name, value) ==
    IF ~value.enabled THEN "enabled" :> FALSE
    ELSE IF ~current["enabled"] THEN current
    ELSE LET field == ListField(perm_name)
             merged == (field :> (Parsed(perm_name, Get(current, field, {}))
                                      \cup value[field]))
                       @@ current
         IN  IF perm_name = "project_settings"
                 THEN ("anatomy_update" :>
                          (Get(current, "anatomy_update", FALSE)
                              \/ value["anatomy_update"]))
                      @@ merged
                 ELSE merged

\* Lines 79-83: studio_settings is not merged at project scope.
SkipCategory(perm_name, project_name) ==
    perm_name = "studio_settings" /\ project_name # "_"

\* Lines 78-124: the loop over the categories of a later group.
RECURSIVE MergeLoop(_, _, _, _)
MergeLoop(st, todo, access_group, project_name) ==
    IF todo = {} THEN st
    ELSE LET perm_name == CHOOSE c \in todo : TRUE
             next ==
                 IF SkipCategory(perm_name, project_name) THEN st
                 ELSE Write(st,
                            [st.result EXCEPT ![perm_name] =
                                MergedCategory(st.result[perm_name], perm_name,
                                               access_group[perm_name])])
         IN  MergeLoop(next, todo \ {perm_name}, access_group, project_name)

\* A faulty variant of CombineStep: the studio entry is merged although the project
\* entry exists.
CombineStepBoth(st, access_group_name, project_name) ==
    LET key == IF <<access_group_name, "_">> \in DOMAIN st.reg
                   THEN <<access_group_name, "_">>
                   ELSE Resolve(st.reg, access_group_name, project_name)
    IN  IF key = NoKey THEN st
        ELSE IF ~st.seeded THEN Seed(st, key, project_name)
        ELSE MergeLoop(st, Categories, st.reg[key], project_name)

\* Lines 64-124: one iteration of the loop over access_group_names.
CombineStep(st, access_group_name, project_name) ==
    LET key == Resolve(st.reg, access_group_name, project_name)
    IN  IF key = NoKey THEN st
        ELSE IF ~st.seeded THEN Seed(st, key, project_name)
        ELSE MergeLoop(st, Categories, st.reg[key], project_name)

RECURSIVE CombineLoop(_, _, _)
CombineLoop(st, access_group_names, project_name) ==
    IF access_group_names = <<>> THEN st
    ELSE CombineLoop(CombineStep(st, Head(access_group_names), project_name),
                     Tail(access_group_names), project_name)

\* Lines 62-124: the loop state when the loop ends.  result is None until a
\* group seeds it (seeded = FALSE).
CombineRun(reg, access_group_names, project_name) ==
    CombineLoop([result |-> <<>>, seeded |-> FALSE, ref |-> NoKey, reg |-> reg],
                access_group_names, project_name)

\* A faulty variant of Returned: with nothing resolved every category is open.
ReturnedOpen(st) ==
    IF ~st.seeded \/ DOMAIN st.result = {}
        THEN MkPermissions(TRUE, {}, FALSE)
        ELSE Permissions(st.result)

\* Lines 126-128: the value combine returns.
Returned(st) ==
    IF ~st.seeded \/ DOMAIN st.result = {}
        THEN Permissions(<<>>)
        ELSE Permissions(st.result)

combine(reg, access_group_names, project_name) ==
    Returned(CombineRun(reg, access_group_names, project_name))

(***************************************************************************)
(* The inputs of combine.                                                  *)
(***************************************************************************)
\* The registry keys of the sample registries: three studio groups and a
\* project-level override of one of them.
SampleKeys == {<<"a", "_">>, <<"b", "_">>, <<"c", "_">>, <<"a", "p1">>}

ItemSets == {{}} \cup {{x} : x \in Values}

SamplePermissions ==
    {MkPermissions(enabled, items, FALSE) :
        enabled \in BOOLEAN, items \in ItemSets}

Registries == UNION {[K -> SamplePermissions] : K \in SUBSET SampleKeys}

\* Lists of distinct access group names.
NameLists ==
    {s \in UNION {[1..n -> GroupNames] : n \in 0..MaxNames} :
        \A i, j \in DOMAIN s : i # j => s[i] # s[j]}

\* A task that serves no request.
IdleTask ==
    [pc |-> "idle", kind |-> "none", name |-> "", scope |-> "_",
     data |-> Permissions(<<>>), rows |-> <<>>, todo |-> {},
     pre |-> <<>>, alone |-> FALSE, fresh |-> FALSE]

InitCombine ==
    /\ access_groups \in Registries
    /\ store = access_groups
    /\ phase = "running"
    /\ req = [t \in Tasks |-> IdleTask]
    /\ issued = 0
    /\ names = <<>>
    /\ project = "_"
    /\ result = Permissions(<<>>)
    /\ called = FALSE
    /\ SettingsIdle
    /\ ServerIdle

\* A call of AccessGroups.combine.
CombineCall ==
    /\ ~called
    /\ \E access_group_names \in NameLists, project_name \in Scopes :
        LET st == CombineRun(access_groups, access_group_names, project_name)
        IN  /\ names' = access_group_names
            /\ project' = project_name
            /\ result' = Returned(st)
            /\ access_groups' = st.reg
    /\ called' = TRUE
    /\ UNCHANGED <<settingsVars, serverVars>>
    /\ UNCHANGED <<store, phase, req, issued>>

NextCombine == CombineCall

SpecCombine == InitCombine /\ [][NextCombine]_vars

\* Registries whose groups differ in anatomy_update.
AnatomyPermissions ==
    {MkPermissions(enabled, {}, anatomy_update) :
        enabled \in BOOLEAN, anatomy_update \in BOOLEAN}

InitAnatomy ==
    /\ access_groups \in UNION {[K -> AnatomyPermissions] : K \in SUBSET SampleKeys}
    /\ store = access_groups
    /\ phase = "running"
    /\ req = [t \in Tasks |-> IdleTask]
    /\ issued = 0
    /\ names = <<>>
    /\ project = "_"
    /\ result = Permissions(<<>>)
    /\ called = FALSE
    /\ SettingsIdle
    /\ ServerIdle

SpecAnatomy == InitAnatomy /\ [][NextCombine]_vars

\* A mapping without one entry, and with one entry set.
Without(reg, key) == [k \in DOMAIN reg \ {key} |-> reg[k]]
With(reg, key, permissions) ==
    [k \in DOMAIN reg \cup {key} |-> IF k = key THEN permissions ELSE reg[k]]

(***************************************************************************)
(* The server: startup, the role endpoints and AccessGroups.load.  Every   *)
(* await of a handler ends a step, so other tasks run between two steps.   *)
(***************************************************************************)
\* The access groups the role endpoints are called with.
RoleNames == {"a"}
RolePermissions ==
    {MkPermissions(TRUE, {1}, FALSE), MkPermissions(FALSE, {}, FALSE)}
RoleKeys == {<<role_name, scope>> : role_name \in RoleNames, scope \in Scopes}

\* The rows of the access_groups table of one scope.
Rows(db, scope) == [key \in {k \in DOMAIN db : k[2] = scope} |-> db[key]]

\* The final positions of a task: its response, or its exception.
Finished == {"done", "failed", "forbidden", "not_found", "constraint_violation"}
Active(t) == req[t].pc \notin {"idle"} \cup Finished

\* The steps of load() at which the task waits for the database.
LoadWaits == {"studio_rows", "project_rows"}
Loading(t) == req[t].pc \in LoadWaits

Init ==
    /\ access_groups = <<>>
    /\ store \in UNION {[K -> RolePermissions] : K \in SUBSET RoleKeys}
    /\ phase = "starting"
    /\ req = [t \in Tasks |-> IdleTask]
    /\ issued = 0
    /\ names = <<>>
    /\ project = "_"
    /\ result = Permissions(<<>>)
    /\ called = FALSE
    /\ SettingsIdle
    /\ ServerIdle

\* The task that takes the next request: the first one that serves none.
Free(t) == ~Active(t) /\ \A u \in Tasks : u < t => Active(u)

\* A task starts on a request.  The record of a finished task is kept until
\* then; alone says that no other task has run since the task started.
Begin(t, task) ==
    req' = [u \in Tasks |->
               IF u = t
                   THEN [task EXCEPT !.alone = \A v \in Tasks \ {t} : ~Active(v)]
               ELSE IF Active(u) THEN [req[u] EXCEPT !.alone = FALSE]
               ELSE IdleTask]

\* startup_event: load_access_groups() before any request is served.
Startup(t) ==
    /\ phase = "starting"
    /\ \A u \in Tasks : req[u].pc = "idle"
    /\ Free(t)
    /\ Begin(t, [IdleTask EXCEPT !.pc = "load", !.kind = "startup"])
    /\ UNCHANGED <<settingsVars, serverVars>>
    /\ UNCHANGED <<access_groups, store, phase, issued, names, project, result,
                   called>>

\* A request of a user who is not a manager: ForbiddenException.
Forbidden(t) ==
    /\ phase = "running" /\ Free(t) /\ issued < MaxRequests
    /\ Begin(t, [IdleTask EXCEPT !.pc = "forbidden"])
    /\ issued' = issued + 1
    /\ UNCHANGED <<settingsVars, serverVars>>
    /\ UNCHANGED <<access_groups, store, phase, names, project, result, called>>

\* save_role up to the await of Postgres.execute.
SaveRole(t) ==
    /\ phase = "running" /\ Free(t) /\ issued < MaxRequests
    /\ \E role_name \in RoleNames, project_name \in Scopes,
          data \in RolePermissions :
        Begin(t, [IdleTask EXCEPT !.pc = "execute", !.kind = "save_role",
                                  !.name = role_name, !.scope = project_name,
                                  !.data = data])
    /\ issued' = issued + 1
    /\ UNCHANGED <<settingsVars, serverVars>>
    /\ UNCHANGED <<access_groups, store, phase, names, project, result, called>>

\* The task goes on to load() after its statement; fresh says of a load()
\* that the tables are as they were when it started.
Executed(t, db) ==
    [u \in Tasks |->
        IF u = t THEN [req[t] EXCEPT !.pc = "load"]
        ELSE [req[u] EXCEPT !.fresh = @ /\ db = store]]

\* The INSERT .. ON CONFLICT DO UPDATE of save_role, then the call of load().
SaveExecute(t) ==
    /\ req[t].pc = "execute" /\ req[t].kind = "save_role"
    /\ store' = With(store, <<req[t].name, req[t].scope>>, req[t].data)
    /\ req' = Executed(t, store')
    /\ UNCHANGED <<settingsVars, serverVars>>
    /\ UNCHANGED <<access_groups, phase, issued, names, project, result, called>>

\* The INSERT fails: ConstraintViolationException, load() is not called.
SaveExecuteFail(t) ==
    /\ req[t].pc = "execute" /\ req[t].kind = "save_role"
    /\ req' = [req EXCEPT ![t].pc = "constraint_violation"]
    /\ UNCHANGED <<settingsVars, serverVars>>
    /\ UNCHANGED <<access_groups, store, phase, issued, names, project, result,
                   called>>

\* delete_role up to the await of Postgres.execute: NotFoundException when
\* the registry has no entry for the role.
DeleteRole(t) ==
    /\ phase = "running" /\ Free(t) /\ issued < MaxRequests
    /\ \E role_name \in RoleNames, project_name \in Scopes :
        Begin(t, [IdleTask EXCEPT
                      !.pc = IF <<role_name, project_name>>
                                    \notin DOMAIN access_groups
                                 THEN "not_found" ELSE "execute",
                      !.kind = "delete_role",
                      !.name = role_name, !.scope = project_name])
    /\ issued' = issued + 1
    /\ UNCHANGED <<settingsVars, serverVars>>
    /\ UNCHANGED <<access_groups, store, phase, names, project, result, called>>

\* The DELETE of delete_role, then the call of load().
DeleteExecute(t) ==
    /\ req[t].pc = "execute" /\ req[t].kind = "delete_role"
    /\ store' = Without(store, <<req[t].name, req[t].scope>>)
    /\ req' = Executed(t, store')
    /\ UNCHANGED <<settingsVars, serverVars>>
    /\ UNCHANGED <<access_groups, phase, issued, names, project, result, called>>

\* get_role: combine([role_name], project_name), with no await.
GetRole(t) ==
    /\ phase = "running" /\ Free(t) /\ issued < MaxRequests
    /\ \E role_name \in RoleNames, project_name \in Scopes :
        LET st == CombineRun(access_groups, <<role_name>>, project_name)
        IN  /\ Begin(t, [IdleTask EXCEPT !.pc = "done", !.kind = "get_role",
                                         !.name = role_name,
                                         !.scope = project_name])
            /\ names' = <<role_name>>
            /\ project' = project_name
            /\ result' = Returned(st)
            /\ access_groups' = st.reg
    /\ called' = TRUE
    /\ issued' = issued + 1
    /\ UNCHANGED <<settingsVars, serverVars>>
    /\ UNCHANGED <<store, phase>>

\* The endpoints of the requests (1 is the one the stored groups list) and
\* the access groups of the user who sends them.
Endpoints == {1, 2}
UserGroups == <<"a">>

\* Lines 200-208: the endpoint check refuses the request.
Refused(perms, is_manager, project_name, endpoint) ==
    /\ ~is_manager
    /\ project_name # "_"
    /\ perms["endpoints"]["enabled"]
    /\ endpoint \notin perms["endpoints"]["endpoints"]

\* dep_current_user, lines 197-209, for an authenticated user: the merged
\* permissions of the user's access groups on the project, read from the
\* registry with no await, refuse the endpoint or let the request through.
EndpointCheck(t, is_manager, project_name, endpoint) ==
    LET st == CombineRun(access_groups, UserGroups, project_name)
    IN  /\ Begin(t, [IdleTask EXCEPT
                        !.pc = IF Refused(Returned(st), is_manager,
                                          project_name, endpoint)
                                   THEN "forbidden" ELSE "done",
                        !.kind = "request", !.scope = project_name])
        /\ access_groups' = st.reg

\* A request to an endpoint that depends on the current user.
ProjectRequest(t) ==
    /\ phase = "running" /\ Free(t) /\ issued < MaxRequests
    /\ \E is_manager \in BOOLEAN, project_name \in Scopes,
          endpoint \in Endpoints :
        EndpointCheck(t, is_manager, project_name, endpoint)
    /\ issued' = issued + 1
    /\ UNCHANGED <<settingsVars, serverVars>>
    /\ UNCHANGED <<store, phase, names, project, result, called>>

\* A faulty variant of Cleared: load() keeps the entries of the mapping.
ClearedNot(reg) == reg

\* Line 22: cls.access_groups = {}
Cleared(reg) == <<>>

\* Lines 22-25: the mapping is emptied and the query on
\* public.access_groups is sent; it sees the table as it is then.
LoadStudio(t) ==
    /\ req[t].pc = "load"
    /\ access_groups' = Cleared(access_groups)
    /\ req' = [req EXCEPT ![t].pc = "studio_rows",
                          ![t].rows = Rows(store, "_"),
                          ![t].pre = access_groups,
                          ![t].fresh = TRUE]
    /\ UNCHANGED <<settingsVars, serverVars>>
    /\ UNCHANGED <<store, phase, issued, names, project, result, called>>

\* Lines 45-49: add_access_group writes into the mapping the class holds now.
add_access_group(reg, key, permissions) == With(reg, key, permissions)

\* Lines 23-30 and 35-42: one row of the running query is added.
LoadRow(t) ==
    /\ req[t].pc \in {"studio_rows", "project_rows"}
    /\ \E key \in DOMAIN req[t].rows :
        /\ access_groups' = add_access_group(access_groups, key, req[t].rows[key])
        /\ req' = [req EXCEPT ![t].rows = Without(@, key)]
    /\ UNCHANGED <<settingsVars, serverVars>>
    /\ UNCHANGED <<store, phase, issued, names, project, result, called>>

\* Line 32: get_project_list(), awaited once the studio rows are through.
ProjectList(t) ==
    IF req[t].pc = "studio_rows" THEN ProjectNames ELSE req[t].todo

\* Lines 32-37: the query on the access_groups table of the next project.
LoadProject(t) ==
    /\ req[t].pc \in {"studio_rows", "project_rows"} /\ DOMAIN req[t].rows = {}
    /\ \E project_name \in ProjectList(t) :
        req' = [req EXCEPT ![t].pc = "project_rows",
                           ![t].rows = Rows(store, project_name),
                           ![t].todo = ProjectList(t) \ {project_name}]
    /\ UNCHANGED <<settingsVars, serverVars>>
    /\ UNCHANGED <<access_groups, store, phase, issued, names, project, result,
                   called>>

\* load() returns: the handler returns its response, startup goes on.
LoadDone(t) ==
    /\ req[t].pc \in {"studio_rows", "project_rows"}
    /\ DOMAIN req[t].rows = {} /\ ProjectList(t) = {}
    /\ req' = [req EXCEPT ![t].pc = "done", ![t].pre = <<>>]
    /\ phase' = "running"
    /\ UNCHANGED <<settingsVars, serverVars>>
    /\ UNCHANGED <<access_groups, store, issued, names, project, result, called>>

\* A query of load() or get_project_list() raises: the exception leaves
\* load() and the handler; at startup it ends the server.
LoadFail(t) ==
    /\ Loading(t)
    /\ req' = [req EXCEPT ![t].pc = "failed", ![t].rows = <<>>, ![t].todo = {}]
    /\ phase' = IF req[t].kind = "startup" THEN "failed" ELSE phase
    /\ UNCHANGED <<settingsVars, serverVars>>
    /\ UNCHANGED <<access_groups, store, issued, names, project, result, called>>

Next ==
    \E t \in Tasks :
        \/ Startup(t)
        \/ Forbidden(t)
        \/ SaveRole(t)
        \/ SaveExecute(t)
        \/ SaveExecuteFail(t)
        \/ DeleteRole(t)
        \/ DeleteExecute(t)
        \/ GetRole(t)
        \/ ProjectRequest(t)
        \/ LoadStudio(t)
        \/ LoadRow(t)
        \/ LoadProject(t)
        \/ LoadDone(t)
        \/ LoadFail(t)

Spec == Init /\ [][Next]_vars

(***************************************************************************)
(* Settings of an addon (openpype/addons/addon.py)                         *)
(***************************************************************************)
\* Largest value of a settings field.
NumLeaves == 3
\* Most settings requests served in one run.
MaxCalls == 2
\* Most requests authenticated in one run, and the last time of the clock.
MaxAuth == 2
MaxTime == 2
\* Most start() calls of a background worker in one run.
MaxStarts == 3
\* Most failed connection attempts of ayon_init in one run.
MaxAttempts == 3

\* Python's None where a string is expected.
None == "None"
\* The truth value of an optional string: None and "" are false.
Truth(s) == s # None /\ s # ""

\* What a call gives: its value, or the exception it raised.
Ok(value) == [error |-> None, value |-> value]
Raised(error) == [error |-> error, value |-> <<>>]

Leaves == 1..NumLeaves
AddonNames == {"foo", "bar"}
Versions == {"1", "2"}
SiteIds == {"s1"}

\* The settings model of the addons: x is a nested model with the fields y
\* and z, w is a plain field.  model() gives the defaults.
NestedFields == {"x"}
DefaultSettings == [x |-> [y |-> 1, z |-> 1], w |-> 1]

\* Override documents: partial documents of the settings model.
NestedOverrides == UNION {[K -> Leaves] : K \in SUBSET {"y", "z"}}
OverrideDocuments ==
    {<<>>}
        \cup {[x |-> n] : n \in NestedOverrides}
        \cup {[w |-> v] : v \in Leaves}
        \cup {[x |-> n, w |-> v] : n \in NestedOverrides, v \in Leaves}

\* apply_overrides(settings, overrides): the document of settings with every
\* field that overrides sets replaced, nested models merged field by field.
apply_overrides(current, overrides) ==
    [name \in DOMAIN current |->
        IF name \in NestedFields
        THEN LET child == current[name]
                 nested == Get(overrides, name, <<>>)
             IN  [field \in DOMAIN child |-> Get(nested, field, child[field])]
        ELSE Get(overrides, name, current[name])]

\* An addon of the library: definition name and version.
Addon(name, version) == <<name, version>>

\* get_studio_overrides: the latest row of settings for the addon, or {}.
get_studio_overrides(db, addon) == Get(db.studio, addon, <<>>)

\* get_project_overrides: the latest row of project_{name}.settings, or {};
\* NotFoundException when the project has no such table.
get_project_overrides(db, addon, project_name) ==
    IF project_name \notin DOMAIN db.project
    THEN Raised("NotFoundException")
    ELSE Ok(Get(db.project[project_name], addon, <<>>))

\* get_default_settings: None without a settings model, else model(); an
\* addon may override the method, and its code may raise.
get_default_settings(lib, addon) ==
    LET version == lib.definitions[addon[1]].versions[addon[2]]
    IN  IF version.raises THEN Raised("Exception")
        ELSE IF version.settings_model THEN Ok(<<DefaultSettings>>)
        ELSE Ok(<<>>)

\* get_studio_settings: the defaults with the studio overrides.
get_studio_settings(lib, db, addon) ==
    LET defaults == get_default_settings(lib, addon)
        overrides == get_studio_overrides(db, addon)
    IN  IF defaults.error # None \/ defaults.value = <<>> THEN defaults
        ELSE IF DOMAIN overrides # {}
        THEN Ok(<<apply_overrides(defaults.value[1], overrides)>>)
        ELSE defaults

\* A faulty variant of get_project_settings: the project overrides are
\* applied to the defaults, the studio overrides are left out.
get_project_settings_defaults(lib, db, addon, project_name) ==
    LET defaults == get_default_settings(lib, addon)
        project_overrides == get_project_overrides(db, addon, project_name)
    IN  IF defaults.error # None \/ defaults.value = <<>> THEN defaults
        ELSE IF project_overrides.error # None THEN project_overrides
        ELSE Ok(<<apply_overrides(defaults.value[1], project_overrides.value)>>)

\* A faulty variant of get_project_settings: the studio overrides are
\* applied once more after the project overrides.
get_project_settings_studio_last(lib, db, addon, project_name) ==
    LET studio == get_studio_settings(lib, db, addon)
        studio_overrides == get_studio_overrides(db, addon)
        project_overrides == get_project_overrides(db, addon, project_name)
    IN  IF studio.error # None \/ studio.value = <<>> THEN studio
        ELSE IF project_overrides.error # None THEN project_overrides
        ELSE Ok(<<apply_overrides(
                    apply_overrides(studio.value[1], project_overrides.value),
                    studio_overrides)>>)

\* get_project_settings: the studio settings, the studio overrides once
\* more, then the project overrides.
get_project_settings(lib, db, addon, project_name) ==
    LET studio == get_studio_settings(lib, db, addon)
        studio_overrides == get_studio_overrides(db, addon)
        project_overrides == get_project_overrides(db, addon, project_name)
    IN  IF studio.error # None \/ studio.value = <<>> THEN studio
        ELSE IF project_overrides.error # None THEN project_overrides
        ELSE LET with_studio ==
                     IF DOMAIN studio_overrides # {}
                     THEN apply_overrides(studio.value[1], studio_overrides)
                     ELSE studio.value[1]
             IN  IF DOMAIN project_overrides.value # {}
                 THEN Ok(<<apply_overrides(with_studio, project_overrides.value)>>)
                 ELSE Ok(<<with_studio>>)

\* get_project_site_settings: the project settings with the overrides of
\* the site for the project.
get_project_site_settings(lib, db, addon, project_name, site_id) ==
    LET project_settings == get_project_settings(lib, db, addon, project_name)
        site_overrides == Get(Get(db.project_site, <<project_name, site_id>>, <<>>),
                              addon, <<>>)
    IN  IF project_settings.error # None \/ project_settings.value = <<>>
        THEN project_settings
        ELSE IF DOMAIN site_overrides # {}
        THEN Ok(<<apply_overrides(project_settings.value[1], site_overrides)>>)
        ELSE project_settings

\* get_site_settings: the settings of the site for the addon, None when
\* the site has stored none.
get_site_settings(db, addon, site_id) ==
    IF addon \in DOMAIN db.site THEN Ok(<<db.site[addon]>>) ELSE Ok(<<>>)

(***************************************************************************)
(* AddonLibrary                                                            *)
(***************************************************************************)
\* AddonLibrary.get(name): the definition of the addon, None without one.
AddonLibrary_get(lib, name) ==
    IF name \in DOMAIN lib.definitions THEN <<lib.definitions[name]>> ELSE <<>>

\* AddonLibrary.addon(name, version): the addon, NotFoundException when
\* the name or the version is not installed.
AddonLibrary_addon(lib, name, version) ==
    IF name \in DOMAIN lib.definitions
        /\ version \in DOMAIN lib.definitions[name].versions
    THEN Ok(Addon(name, version))
    ELSE Raised("NotFoundException")

\* AddonLibrary.is_broken(name, version): the reason recorded for an addon
\* that failed to start, None for any other addon.
AddonLibrary_is_broken(lib, name, version) ==
    Get(lib.broken_addons, Addon(name, version), None)

(***************************************************************************)
(* get_all_settings (api/settings/settings.py)                             *)
(***************************************************************************)
StudioVariants == {"production", "staging"}

NotFoundException(detail) ==
    [status |-> 404, error |-> "NotFoundException", detail |-> detail]

\* An exception that no handler of the request catches.
Uncaught(error) == [status |-> 500, error |-> error, detail |-> ""]

\* SELECT data->'bundle' as bundle FROM projects WHERE name = $1
ProjectRows(project_name) ==
    IF project_name \in DOMAIN projects
    THEN <<projects[project_name]>>
    ELSE <<>>

\* r[0]["bundle"][variant]: raises when the bundle is null or has no entry
\* for the variant.
BundleOfVariant(row, variant) ==
    IF "bundle" \in DOMAIN row /\ variant \in DOMAIN row.bundle
    THEN Ok(row.bundle[variant])
    ELSE Raised("Exception")

\* The project's bundle override (lines 76-90): the error of the request,
\* or the bundle name to look up and whether the project overrides it.
ProjectBundle(a) ==
    IF Truth(a.project_name) /\ ~Truth(a.bundle_name)
        /\ a.variant \in StudioVariants
    THEN LET r == ProjectRows(a.project_name)
         IN  IF r = <<>>
             THEN [error |-> "Project not found", bundle_name |-> a.bundle_name,
                   has_project_bundle_override |-> FALSE]
             ELSE LET override == BundleOfVariant(r[1], a.variant)
                  IN  IF override.error = None
                      THEN [error |-> None, bundle_name |-> override.value,
                            has_project_bundle_override |-> TRUE]
                      ELSE [error |-> None, bundle_name |-> a.bundle_name,
                            has_project_bundle_override |-> FALSE]
    ELSE [error |-> None, bundle_name |-> a.bundle_name,
          has_project_bundle_override |-> FALSE]

BundleRow(name) ==
    [name |-> name, is_production |-> bundles[name].is_production,
     is_staging |-> bundles[name].is_staging, addons |-> bundles[name].addons]

\* FROM bundles WHERE name = $1
BundlesNamed(name) ==
    IF name \in DOMAIN bundles THEN <<BundleRow(name)>> ELSE <<>>

Flagged(variant) ==
    {name \in DOMAIN bundles :
        IF variant = "production" THEN bundles[name].is_production
        ELSE bundles[name].is_staging}

\* FROM bundles WHERE is_{variant} IS TRUE
BundlesFlagged(variant) ==
    IF Flagged(variant) = {} THEN <<>>
    ELSE <<BundleRow(CHOOSE name \in Flagged(variant) : TRUE)>>

\* The query of the bundle (lines 92-116).
BundleQuery(variant, bundle_name) ==
    IF variant \notin StudioVariants THEN BundlesNamed(variant)
    ELSE IF bundle_name = None THEN BundlesFlagged(variant)
    ELSE BundlesNamed(bundle_name)

\* A faulty variant of StudioNotSet: the rows are not checked and r[0]
\* raises.
StudioNotSetUnchecked == Uncaught("IndexError")

\* The studio bundle is not set (lines 133-138).
StudioNotSet ==
    NotFoundException("Unable to load project bundle. Studio bundle is not set")

\* A faulty variant of Inherits: the addons that allow the override.
InheritsAllowed(definition) ==
    definition # <<>> /\ definition[1].project_can_override_addon_version

\* Whether the studio version of an addon is forced on the project bundle
\* (lines 142-150).
Inherits(definition) ==
    definition # <<>> /\ ~definition[1].project_can_override_addon_version

\* The addons of the studio bundle that the project inherits.
Inherited(studio_addons) ==
    {addon_name \in DOMAIN studio_addons :
        Inherits(AddonLibrary_get(library, addon_name))}

\* The project bundle merged with the studio bundle (lines 141-152).
Merged(addons, studio_addons) ==
    [addon_name \in DOMAIN addons \cup Inherited(studio_addons) |->
        IF addon_name \in Inherited(studio_addons)
        THEN studio_addons[addon_name]
        ELSE addons[addon_name]]

\* The order of the addon names: of the keys of a bundle's addons and of
\* the titles that sort the response.
NameOrder == <<"bar", "foo">>
InOrder(addon_names) == SelectSeq(NameOrder, LAMBDA name : name \in addon_names)

\* addon_result.sort(key=lambda x: x.title.lower())
SortedByTitle(entries) ==
    LET titles == InOrder(DOMAIN entries)
    IN  [i \in DOMAIN titles |-> entries[titles[i]]]

\* A faulty variant of SettingsCall: the site of the request is ignored.
SettingsCallNoSite(a) ==
    IF Truth(a.project_name) THEN "project" ELSE "studio"

\* The settings that the request asks of an addon (lines 206-227).
SettingsCall(a) ==
    IF Truth(a.site_id)
    THEN IF a.project_name = None THEN "studio" ELSE "project_site"
    ELSE IF Truth(a.project_name) THEN "project" ELSE "studio"

LoadedSettings(a, addon) ==
    LET call == SettingsCall(a)
    IN  IF call = "studio"
        THEN get_studio_settings(library, settings, addon)
        ELSE IF call = "project"
        THEN get_project_settings(library, settings, addon, a.project_name)
        ELSE get_project_site_settings(library, settings, addon,
                                       a.project_name, a.site_id)

\* site_settings: None without a site (line 202), else get_site_settings.
LoadedSiteSettings(a, addon) ==
    IF Truth(a.site_id)
    THEN get_site_settings(settings, addon, a.site_id)
    ELSE Ok(<<>>)

\* An entry of the response; the title of an addon is its name.
AddonSettingsItemModel(name, version, document, site_settings, is_broken, reason) ==
    [name |-> name, title |-> name, version |-> version,
     settings |-> document, site_settings |-> site_settings,
     is_broken |-> is_broken, reason |-> reason]

\* The entry of an addon that the library does not hold (lines 161-180).
NotInstalled(addon_name, addon_version) ==
    LET broken_reason == AddonLibrary_is_broken(library, addon_name, addon_version)
    IN  Ok(AddonSettingsItemModel(addon_name, addon_version, <<>>, <<>>,
                                  broken_reason # None, broken_reason))

\* A faulty variant of LoadFailed: the exception leaves the handler.
LoadFailedRaised(addon_name, addon_version) == Raised("Exception")

\* The entry of an addon whose settings raised (lines 229-245).
LoadFailed(addon_name, addon_version) ==
    Ok(AddonSettingsItemModel(addon_name, addon_version, <<>>, <<>>,
                              TRUE, "Unable to load settings"))

\* settings.dict() if (settings and not summary) else {}
ResponseSettings(loaded, summary) ==
    IF loaded # <<>> /\ ~summary THEN loaded[1] ELSE <<>>

\* One turn of the loop over the addons of the bundle (lines 155-273).
AddonEntry(a, addon_name, addon_version) ==
    LET addon == AddonLibrary_addon(library, addon_name, addon_version)
    IN  IF addon.error = "NotFoundException"
        THEN NotInstalled(addon_name, addon_version)
        ELSE LET site_settings == LoadedSiteSettings(a, addon.value)
                 loaded == LoadedSettings(a, addon.value)
             IN  IF site_settings.error # None \/ loaded.error # None
                 THEN LoadFailed(addon_name, addon_version)
                 ELSE Ok(AddonSettingsItemModel(
                         addon_name, addon_version,
                         ResponseSettings(loaded.value, a.summary),
                         site_settings.value, FALSE, None))

get_all_settings(a) ==
    LET found == ProjectBundle(a)
        brow == BundleQuery(a.variant, found.bundle_name)
        merge == found.has_project_bundle_override
        r == IF merge THEN BundlesFlagged(a.variant) ELSE <<>>
    IN  IF found.error # None THEN NotFoundException(found.error)
        ELSE IF brow = <<>> THEN NotFoundException("Bundle not found")
        ELSE IF merge /\ r = <<>> THEN StudioNotSet
        ELSE LET addons == IF merge
                           THEN Merged(brow[1].addons, r[1].addons)
                           ELSE brow[1].addons
                 inherited_addons == IF merge THEN Inherited(r[1].addons) ELSE {}
                 versioned == {name \in DOMAIN addons : addons[name] # None}
                 entries == [name \in versioned |->
                                AddonEntry(a, name, addons[name])]
             IN  IF \E name \in versioned : entries[name].error # None
                 THEN Uncaught("Exception")
                 ELSE [status |-> 200, error |-> None, detail |-> "",
                       bundle_name |-> brow[1].name,
                       addons |-> SortedByTitle(
                           [name \in versioned |-> entries[name].value]),
                       inherited_addons |-> InOrder(inherited_addons)]

\* A faulty variant of Selected: the query stores the defaults as the
\* studio overrides of every addon of the library.
SelectedStored(db) ==
    [db EXCEPT !.studio =
        [addon \in {Addon(name, version) : name \in AddonNames, version \in Versions}
            |-> DefaultSettings]]

\* The tables after the SELECT statements of a request: as before.
Selected(db) == db

(***************************************************************************)
(* Settings requests                                                       *)
(***************************************************************************)
\* The role endpoints serve no request in the runs of the settings.
RolesIdle ==
    /\ access_groups = <<>>
    /\ store = <<>>
    /\ phase = "running"
    /\ req = [t \in Tasks |-> IdleTask]
    /\ issued = 0
    /\ names = <<>>
    /\ project = "_"
    /\ result = Permissions(<<>>)
    /\ called = FALSE

\* A version of an addon as the library holds it.
Installed(settings_model, raises) ==
    [settings_model |-> settings_model, raises |-> raises]

Definition(project_can_override_addon_version, versions) ==
    [project_can_override_addon_version |-> project_can_override_addon_version,
     versions |-> versions]

Bundle(is_production, is_staging, addons) ==
    [is_production |-> is_production, is_staging |-> is_staging,
     addons |-> addons]

\* Tables without any override document.
NoOverrides ==
    [studio |-> <<>>, project |-> [p \in ProjectNames |-> <<>>],
     project_site |-> <<>>, site |-> <<>>]

Arguments(bundle_name, project_name, variant, site_id, summary) ==
    [bundle_name |-> bundle_name, project_name |-> project_name,
     variant |-> variant, site_id |-> site_id, summary |-> summary]

\* Bundles and projects of a studio: bundle A is the studio's, bundle B a
\* project's, bundle dev one that no flag marks.
StudioAddons ==
    {[foo |-> "1", bar |-> "1"], [foo |-> "1"], [foo |-> "1", bar |-> None]}
ProjectAddons == {[foo |-> "2", bar |-> "2"], [bar |-> "2"], <<>>}
ProjectData ==
    {<<>>, [bundle |-> <<>>], [bundle |-> [production |-> None]],
     [bundle |-> [production |-> "B"]], [bundle |-> [staging |-> "A"]],
     [bundle |-> [production |-> "ghost"]],
     [bundle |-> [production |-> "B", staging |-> None]]}
AllInstalled == [version \in Versions |-> Installed(TRUE, FALSE)]
BundleLibraries ==
    {[definitions |-> definitions, broken_addons |-> <<>>] :
        definitions \in
            {[foo |-> Definition(can, AllInstalled)] : can \in BOOLEAN}
            \cup {[foo |-> Definition(can, AllInstalled),
                   bar |-> Definition(other, AllInstalled)] :
                    can \in BOOLEAN, other \in BOOLEAN}}

InitBundles ==
    /\ \E studio \in StudioAddons, other \in ProjectAddons,
          production \in BOOLEAN, staging \in BOOLEAN :
            bundles = [A |-> Bundle(production, FALSE, studio),
                       B |-> Bundle(FALSE, staging, other),
                       dev |-> Bundle(FALSE, FALSE, [foo |-> "2"])]
    /\ projects \in [ProjectNames -> ProjectData]
    /\ library \in BundleLibraries
    /\ settings = NoOverrides
    /\ args \in {Arguments(bundle_name, project_name, variant, None, FALSE) :
                    bundle_name \in {None, "A", "B", "ghost"},
                    project_name \in {None, "p1", "ghost"},
                    variant \in {"production", "staging", "dev"}}

\* Addons of a bundle in every condition: installed with or without a
\* settings model, raising in its settings code, not installed, and not
\* installed with a recorded reason.
Conditions == {"healthy", "no_model", "raises", "missing", "broken"}
BundleVersion == [foo |-> "1", bar |-> "2"]
BundleAddons == {Addon(name, BundleVersion[name]) : name \in AddonNames}
LibraryVersions(version, condition) ==
    IF condition \in {"missing", "broken"} THEN <<>>
    ELSE [v \in {version} |->
            Installed(condition # "no_model", condition = "raises")]
AddonLibraries ==
    {[definitions |->
        [name \in AddonNames |->
            Definition(FALSE,
                       LibraryVersions(BundleVersion[name], conditions[name]))],
      broken_addons |->
        [addon \in {a \in BundleAddons : conditions[a[1]] = "broken"} |->
            "Addon failed to start"]] :
        conditions \in [AddonNames -> Conditions]}

\* The override documents of the layers, the same for both addons.
StudioLayer == [x |-> [y |-> 2, z |-> 2]]
ProjectLayer == [x |-> [z |-> 3], w |-> 2]
SiteLayer == [w |-> 3]
SiteSettings == [local |-> 1]
LayerRows(stored, document) ==
    IF stored THEN [addon \in BundleAddons |-> document] ELSE <<>>

InitAddons ==
    /\ \E version \in {"2", None} :
        bundles = [A |-> Bundle(TRUE, FALSE, [foo |-> "1", bar |-> version])]
    /\ projects = [p \in ProjectNames |-> <<>>]
    /\ library \in AddonLibraries
    /\ \E studio \in BOOLEAN, in_project \in BOOLEAN, in_site \in BOOLEAN,
          site \in BOOLEAN :
            settings =
                [studio |-> LayerRows(studio, StudioLayer),
                 project |-> [p \in ProjectNames |->
                                LayerRows(in_project, ProjectLayer)],
                 project_site |->
                    [key \in {<<p, s>> : p \in ProjectNames, s \in SiteIds} |->
                        LayerRows(in_site, SiteLayer)],
                 site |-> LayerRows(site, SiteSettings)]
    /\ args \in {Arguments(bundle_name, project_name, "production", site_id,
                           summary) :
                    bundle_name \in {None, "A"},
                    project_name \in {None, "p1", "ghost"},
                    site_id \in {None} \cup SiteIds,
                    summary \in BOOLEAN}

InitSettings ==
    /\ RolesIdle
    /\ ServerIdle
    /\ response = <<>>
    /\ calls = 0
    /\ InitBundles \/ InitAddons

\* A request of GET /settings.
GetAllSettings ==
    /\ calls < MaxCalls
    /\ response' = get_all_settings(args)
    /\ settings' = Selected(settings)
    /\ calls' = calls + 1
    /\ UNCHANGED <<projects, bundles, library, args>>
    /\ UNCHANGED <<rolesVars, serverVars>>

NextSettings == GetAllSettings

SpecSettings == InitSettings /\ [][NextSettings]_vars

(***************************************************************************)
(* Calls of the settings methods of one addon                              *)
(***************************************************************************)
TheAddon == Addon("foo", "1")

\* The addon of the calls with a settings model, over every pair of override
\* documents, and without one, over a few.
InitAddon ==
    /\ RolesIdle
    /\ ServerIdle
    /\ bundles = <<>>
    /\ projects = [p \in ProjectNames |-> <<>>]
    /\ \E settings_model \in BOOLEAN :
        /\ library =
            [definitions |->
                [foo |-> Definition(FALSE,
                            [v \in {"1"} |-> Installed(settings_model, FALSE)])],
             broken_addons |-> <<>>]
        /\ \E studio \in OverrideDocuments, in_project \in OverrideDocuments :
            /\ settings_model \/ {studio, in_project} \subseteq {<<>>, [w |-> 2]}
            /\ settings =
                [studio |-> [addon \in {TheAddon} |-> studio],
                 project |-> [p \in ProjectNames |->
                                [addon \in {TheAddon} |-> in_project]],
                 project_site |-> <<>>, site |-> <<>>]
    /\ args \in {[addon |-> TheAddon, project_name |-> project_name] :
                    project_name \in {"p1", "ghost"}}
    /\ response = <<>>
    /\ calls = 0

\* A call of addon.get_studio_settings().
GetStudioSettings ==
    /\ calls < MaxCalls
    /\ response' =
        [call |-> "get_studio_settings",
         returned |-> get_studio_settings(library, settings, args.addon)]
    /\ settings' = Selected(settings)
    /\ calls' = calls + 1
    /\ UNCHANGED <<projects, bundles, library, args>>
    /\ UNCHANGED <<rolesVars, serverVars>>

\* A call of addon.get_project_settings(project_name).
GetProjectSettings ==
    /\ calls < MaxCalls
    /\ response' =
        [call |-> "get_project_settings",
         returned |-> get_project_settings(library, settings, args.addon,
                                           args.project_name)]
    /\ settings' = Selected(settings)
    /\ calls' = calls + 1
    /\ UNCHANGED <<projects, bundles, library, args>>
    /\ UNCHANGED <<rolesVars, serverVars>>

NextAddon == GetStudioSettings \/ GetProjectSettings

SpecAddon == InitAddon /\ [][NextAddon]_vars

(***************************************************************************)
(* Authentication: user_from_api_key and dep_current_user.  Session,       *)
(* UserEntity and hash_password are used as dependencies.py calls them.    *)
(***************************************************************************)
\* hash_password(api_key): the form in which the table holds a key.
hash_password(api_key) == "sha256:" \o api_key

\* The headers a request may carry (None: the header is absent).
\* x-api-key with the key of the authorization header, and the access token.
SentApiKeys ==
    {<<None, None>>, <<"k1", None>>, <<None, "k1">>, <<"k2", "k1">>,
     <<"bad", None>>}
SentTokens == {None, "t1"}
\* The project and the endpoint of a request.
SentTo == {<<"_", 2>>, <<"p1", 2>>}
SentAsUser == {None, "alice", "svc", "ghost"}

\* A row of the table users.  expires of a key is <<>> when the key has none.
User(user_name, is_service, is_manager, apiKey, apiKeys) ==
    [name |-> user_name, is_service |-> is_service, is_manager |-> is_manager,
     data |-> [apiKey |-> apiKey, apiKeys |-> apiKeys]]

\* Lines 135-136: key_data.get("expires") and key_data["expires"] < time.time()
Expired(key_data, t) ==
    /\ key_data.expires # <<>>
    /\ key_data.expires[1] # 0
    /\ key_data.expires[1] < t

\* Lines 119-128: the users whose apiKey or one of whose apiKeys is the hash.
Holders(db, hashed_key) ==
    {n \in DOMAIN db :
        \/ db[n].data.apiKey = hashed_key
        \/ \E i \in DOMAIN db[n].data.apiKeys :
                db[n].data.apiKeys[i].key = hashed_key}

\* Lines 110-151: user_from_api_key at time t.
user_from_api_key(db, api_key, t) ==
    LET hashed_key == hash_password(api_key)
        found == Holders(db, hashed_key)
    IN  IF found = {} THEN Raised("Unauthorized")
        ELSE LET user == db[CHOOSE n \in found : TRUE]
                 keys == user.data.apiKeys
                 hits == {i \in DOMAIN keys : keys[i].key = hashed_key}
             IN  IF user.data.apiKey = hashed_key THEN Ok(<<user>>)
                 ELSE IF hits = {} THEN Raised("Unauthorized")
                 ELSE LET i == CHOOSE i \in hits : \A j \in hits : i <= j
                      IN  IF Expired(keys[i], t) THEN Raised("Unauthorized")
                          ELSE Ok(<<user>>)

\* Lines 194-195: a service user becomes UserEntity.load(x_as_user).
Sudo(db, user, x_as_user) ==
    IF x_as_user # None /\ user.is_service
        THEN IF x_as_user \in DOMAIN db THEN Ok(<<db[x_as_user]>>)
             ELSE Raised("NotFound")
        ELSE Ok(<<user>>)

\* Lines 154-209: dep_current_user at time t over the table users, the
\* session store and the registry.  The value is what the call returns or
\* raises, the session store it leaves, and the user it had authenticated
\* before it looked at x-as-user (<<>>: none).  The flag is_api_key of the
\* session object and the counter of Redis.incr are not part of the model.
dep_current_user(db, held, reg, t, x_as_user, x_api_key, access_token, api_key, project_name, endpoint) ==
    LET key == IF Truth(x_api_key) THEN x_api_key ELSE api_key
        token == IF Truth(key) THEN key ELSE access_token
        by_key == user_from_api_key(db, key, t)
        session_data ==
            IF token \in DOMAIN held THEN <<held[token]>>
            ELSE IF Truth(key) /\ by_key.error = None
                THEN <<[user |-> by_key.value[1]]>>
            ELSE <<>>
    IN  IF (~Truth(key) /\ access_token = None) \/ session_data = <<>>
            THEN [returned |-> Raised("Unauthorized"), sessions |-> held,
                  authenticated |-> <<>>]
        ELSE LET user == session_data[1].user
                 sudo == Sudo(db, user, x_as_user)
             IN  [returned |->
                    IF sudo.error # None THEN sudo
                    ELSE IF Refused(combine(reg, UserGroups, project_name),
                                    sudo.value[1].is_manager, project_name,
                                    endpoint)
                        THEN Raised("Forbidden")
                    ELSE sudo,
                  sessions |-> With(held, token, session_data[1]),
                  authenticated |-> <<user>>]

\* The tables of the authentication runs: alice, who is no service user and
\* has the API key k1 in apiKeys, with or without an expiry time, and the
\* service user svc with the API key k2 in apiKey.
AuthUsers ==
    {[n \in {"alice", "svc"} |->
        IF n = "alice"
            THEN User("alice", FALSE, FALSE, None,
                      <<[key |-> hash_password("k1"), expires |-> expires]>>)
            ELSE User("svc", TRUE, TRUE, hash_password("k2"), <<>>)] :
        expires \in {<<>>, <<1>>}}

InitAuth ==
    /\ access_groups = [k \in {<<"a", "_">>} |-> MkPermissions(TRUE, {1}, FALSE)]
    /\ store = access_groups
    /\ phase = "running"
    /\ req = [t \in Tasks |-> IdleTask]
    /\ issued = 0
    /\ names = <<>>
    /\ project = "_"
    /\ result = Permissions(<<>>)
    /\ called = FALSE
    /\ SettingsIdle
    /\ WorkerIdle /\ InitIdle /\ StartupIdle
    /\ now = 0
    /\ users \in AuthUsers
    /\ sessions \in {<<>>} \cup {[token \in {"t1"} |-> [user |-> users[n]]] :
                                    n \in DOMAIN users}
    /\ auth = <<>>
    /\ requests = 0

AuthOnly ==
    UNCHANGED <<rolesVars, settingsVars, workerVars, initVars, startupVars>>

\* A request to an endpoint that depends on dep_current_user.
CurrentUser ==
    /\ requests < MaxAuth
    /\ \E x_as_user \in SentAsUser, keys \in SentApiKeys,
          access_token \in SentTokens, to \in SentTo :
        LET x_api_key == keys[1]
            api_key == keys[2]
            project_name == to[1]
            endpoint == to[2]
            r == dep_current_user(users, sessions, access_groups, now,
                                  x_as_user, x_api_key, access_token, api_key,
                                  project_name, endpoint)
        IN  /\ auth' = [x_as_user |-> x_as_user, x_api_key |-> x_api_key,
                        access_token |-> access_token, api_key |-> api_key,
                        project_name |-> project_name, endpoint |-> endpoint,
                        at |-> now,
                        had_session |-> access_token \in DOMAIN sessions,
                        authenticated |-> r.authenticated,
                        returned |-> r.returned]
            /\ sessions' = r.sessions
    /\ requests' = requests + 1
    /\ UNCHANGED <<now, users>>
    /\ AuthOnly

\* Time passes.
Tick ==
    /\ now < MaxTime
    /\ now' = now + 1
    /\ UNCHANGED <<users, sessions, auth, requests>>
    /\ AuthOnly

\* Line 176: a session ends, and Session.check gives None for its token.
SessionEnds ==
    /\ \E token \in DOMAIN sessions : sessions' = Without(sessions, token)
    /\ UNCHANGED <<now, users, auth, requests>>
    /\ AuthOnly

NextAuth == CurrentUser \/ Tick \/ SessionEnds

SpecAuth == InitAuth /\ [][NextAuth]_vars

(***************************************************************************)
(* BackgroundWorker.  A step of the worker's task runs from one await to   *)
(* the next; run() and finalize() are the methods of a subclass.           *)
(***************************************************************************)
\* asyncio.create_task(self._run()): the task has not run yet.
NewTask == [pc |-> "created", must_cancel |-> FALSE, ended |-> "no"]

\* Lines 37-39: is_running.
is_running == worker_task # <<>> /\ worker_task[1].pc # "done"

\* A faulty variant of cancel: the request is lost.
cancel_lost(t) == t

\* Task.cancel(): a task that is not done gets CancelledError at its next
\* step.
cancel(t) == IF t.pc = "done" THEN t ELSE [t EXCEPT !.must_cancel = TRUE]

\* The task has finished: _run returned, or an exception left it.
Done(t, how) == [t EXCEPT !.pc = "done", !.must_cancel = FALSE, !.ended = how]

InitWorker ==
    /\ RolesIdle /\ SettingsIdle
    /\ AuthIdle /\ InitIdle /\ StartupIdle
    /\ worker_task = <<>>
    /\ shutting_down = FALSE
    /\ oneshot \in BOOLEAN
    /\ suppresses \in BOOLEAN
    /\ caller = "none"
    /\ starts = 0

WorkerOnly ==
    UNCHANGED <<rolesVars, settingsVars, authVars, initVars, startupVars>>

\* Lines 22-25: start(), called once by the server before any shutdown().
Start ==
    /\ starts = 0 /\ caller = "none"
    /\ worker_task' = <<NewTask>>
    /\ starts' = 1
    /\ UNCHANGED <<shutting_down, oneshot, suppresses, caller>>
    /\ WorkerOnly

\* The first step of the task: _run enters run(), or the task was cancelled
\* before it ran and ends without running _run.
TaskBegins ==
    /\ worker_task # <<>> /\ worker_task[1].pc = "created"
    /\ worker_task' = IF worker_task[1].must_cancel
                          THEN <<Done(worker_task[1], "cancelled")>>
                          ELSE <<[worker_task[1] EXCEPT !.pc = "run"]>>
    /\ UNCHANGED <<shutting_down, oneshot, suppresses, caller, starts>>
    /\ WorkerOnly

\* A faulty variant of Finalized: the worker is never started again.
FinalizedNoRestart == worker_task' = <<>> /\ starts' = starts

\* Lines 53-57: finalize() has returned; self.task = None, and start()
\* unless the worker shuts down or is oneshot.
Finalized ==
    IF shutting_down' \/ oneshot
        THEN worker_task' = <<>> /\ starts' = starts
        ELSE /\ starts < MaxStarts
             /\ worker_task' = <<NewTask>>
             /\ starts' = starts + 1

\* Lines 51-52: finalize() is awaited; it returns at once or waits.
Finalizes ==
    \/ Finalized
    \/ /\ worker_task' = <<[worker_task[1] EXCEPT !.pc = "finalize",
                                                  !.must_cancel = FALSE]>>
       /\ starts' = starts

\* Lines 42-43, 47-52: run() returns or raises an Exception.
RunEnds ==
    /\ worker_task # <<>> /\ worker_task[1].pc = "run"
    /\ ~worker_task[1].must_cancel
    /\ shutting_down' = shutting_down
    /\ Finalizes
    /\ UNCHANGED <<oneshot, suppresses, caller>>
    /\ WorkerOnly

\* Lines 44-46, 51-52: CancelledError leaves run(), after a cancel() or
\* raised by what run() awaits.
RunCancelled ==
    /\ worker_task # <<>> /\ worker_task[1].pc = "run"
    /\ worker_task[1].must_cancel => ~suppresses
    /\ shutting_down' = TRUE
    /\ Finalizes
    /\ UNCHANGED <<oneshot, suppresses, caller>>
    /\ WorkerOnly

\* run() catches the CancelledError of a cancel() and goes on.
RunSuppresses ==
    /\ worker_task # <<>> /\ worker_task[1].pc = "run"
    /\ worker_task[1].must_cancel /\ suppresses
    /\ worker_task' = <<[worker_task[1] EXCEPT !.must_cancel = FALSE]>>
    /\ UNCHANGED <<shutting_down, oneshot, suppresses, caller, starts>>
    /\ WorkerOnly

\* Lines 52-57: finalize() returns after it waited.
FinalizeReturns ==
    /\ worker_task # <<>> /\ worker_task[1].pc = "finalize"
    /\ ~worker_task[1].must_cancel
    /\ shutting_down' = shutting_down
    /\ Finalized
    /\ UNCHANGED <<oneshot, suppresses, caller>>
    /\ WorkerOnly

\* Line 52: an exception leaves finalize(), CancelledError after a cancel()
\* or one of its own; it leaves _run as well and self.task stays.
FinalizeRaises ==
    /\ worker_task # <<>> /\ worker_task[1].pc = "finalize"
    /\ worker_task' =
        <<Done(worker_task[1],
               IF worker_task[1].must_cancel THEN "cancelled" ELSE "raised")>>
    /\ UNCHANGED <<shutting_down, oneshot, suppresses, caller, starts>>
    /\ WorkerOnly

\* Lines 27-34: shutdown() up to its first await, or to its return.
Shutdown ==
    /\ caller = "none"
    /\ worker_task' = IF worker_task # <<>>
                          THEN <<cancel(worker_task[1])>> ELSE worker_task
    /\ shutting_down' = TRUE
    /\ caller' = IF is_running THEN "waiting" ELSE "returned"
    /\ UNCHANGED <<oneshot, suppresses, starts>>
    /\ WorkerOnly

\* Lines 32-35: shutdown() wakes up from asyncio.sleep(0.1).
ShutdownPolls ==
    /\ caller = "waiting"
    /\ caller' = IF is_running THEN "waiting" ELSE "returned"
    /\ UNCHANGED <<worker_task, shutting_down, oneshot, suppresses, starts>>
    /\ WorkerOnly

TaskStep ==
    \/ TaskBegins
    \/ RunCancelled /\ worker_task[1].must_cancel
    \/ RunSuppresses
    \/ FinalizeReturns
    \/ FinalizeRaises

NextWorker ==
    \/ Start
    \/ TaskBegins
    \/ RunEnds
    \/ RunCancelled
    \/ RunSuppresses
    \/ FinalizeReturns
    \/ FinalizeRaises
    \/ Shutdown
    \/ ShutdownPolls

SpecWorker == InitWorker /\ [][NextWorker]_vars

\* The event loop runs every task that can run: the worker's task gets its
\* CancelledError, finalize() does not wait for ever, and the sleep of
\* shutdown() ends.  run() may go on for ever.
SpecWorkerFair ==
    SpecWorker /\ WF_vars(TaskStep) /\ WF_vars(ShutdownPolls)

(***************************************************************************)
(* ayon_init.  A step runs from one await to the next.  Postgres.connect   *)
(* and Redis.connect succeed when the store accepts connections and then   *)
(* set Postgres.pool and Redis.connected.                                  *)
(***************************************************************************)
\* What the connect calls raise when the store does not accept.
PostgresErrors ==
    {"ConnectionRefusedError", "CannotConnectNowError", "InvalidPasswordError"}
RedisErrors == {"ConnectionError", "TimeoutError"}

\* A faulty variant of Catches: without the except Exception clauses.
CatchesNamed(error) ==
    error \in {"ConnectionRefusedError", "CannotConnectNowError",
               "ConnectionError"}

\* Lines 24-30 and 41-45: the except clauses; the last one of each loop is
\* except Exception.
Catches(error) == TRUE

InitInit ==
    /\ RolesIdle /\ SettingsIdle
    /\ AuthIdle /\ WorkerIdle /\ StartupIdle
    /\ pool = FALSE
    /\ connected = FALSE
    /\ postgres_up \in BOOLEAN
    /\ redis_up \in BOOLEAN
    /\ extensions \in BOOLEAN
    /\ init_pc = "postgres"
    /\ attempts = 0
    /\ steps = <<>>

InitOnly ==
    UNCHANGED <<rolesVars, settingsVars, authVars, workerVars, startupVars>>

\* The stores start to accept connections.
PostgresComesUp ==
    /\ ~postgres_up
    /\ postgres_up' = TRUE
    /\ UNCHANGED <<pool, connected, redis_up, extensions, init_pc, attempts,
                   steps>>
    /\ InitOnly

RedisComesUp ==
    /\ ~redis_up
    /\ redis_up' = TRUE
    /\ UNCHANGED <<pool, connected, postgres_up, extensions, init_pc, attempts,
                   steps>>
    /\ InitOnly

\* Lines 21-36: one turn of the Postgres loop, up to the sleep or the break.
ConnectPostgres ==
    /\ init_pc = "postgres"
    /\ IF pool
        THEN /\ init_pc' = "redis"
             /\ UNCHANGED <<pool, attempts, steps>>
        ELSE IF postgres_up
        THEN /\ pool' = TRUE
             /\ init_pc' = "redis"
             /\ steps' = Append(steps, "Postgres.connect")
             /\ attempts' = attempts
        ELSE /\ attempts < MaxAttempts
             /\ \E error \in PostgresErrors :
                    init_pc' = IF Catches(error) THEN "postgres_sleep"
                               ELSE "raised"
             /\ steps' = Append(steps, "Postgres.connect")
             /\ attempts' = attempts + 1
             /\ pool' = pool
    /\ UNCHANGED <<connected, postgres_up, redis_up, extensions>>
    /\ InitOnly

\* Lines 38-50: one turn of the Redis loop.
ConnectRedis ==
    /\ init_pc = "redis"
    /\ IF connected
        THEN /\ init_pc' = "extensions"
             /\ UNCHANGED <<connected, attempts, steps>>
        ELSE IF redis_up
        THEN /\ connected' = TRUE
             /\ init_pc' = "extensions"
             /\ steps' = Append(steps, "Redis.connect")
             /\ attempts' = attempts
        ELSE /\ attempts < MaxAttempts
             /\ \E error \in RedisErrors :
                    init_pc' = IF Catches(error) THEN "redis_sleep"
                               ELSE "raised"
             /\ steps' = Append(steps, "Redis.connect")
             /\ attempts' = attempts + 1
             /\ connected' = connected
    /\ UNCHANGED <<pool, postgres_up, redis_up, extensions>>
    /\ InitOnly

\* Lines 36 and 50: asyncio.sleep(retry_interval) returns.
Retry ==
    /\ init_pc \in {"postgres_sleep", "redis_sleep"}
    /\ init_pc' = IF init_pc = "postgres_sleep" THEN "postgres" ELSE "redis"
    /\ UNCHANGED <<pool, connected, postgres_up, redis_up, extensions,
                   attempts, steps>>
    /\ InitOnly

\* Lines 52-53: init_extensions(), when asked for.
InitExtensions ==
    /\ init_pc = "extensions"
    /\ steps' = IF extensions THEN Append(steps, "init_extensions") ELSE steps
    /\ init_pc' = "hook"
    /\ UNCHANGED <<pool, connected, postgres_up, redis_up, extensions,
                   attempts>>
    /\ InitOnly

\* Lines 54-55: the event hook and the project list; ayon_init returns.
BuildProjectList ==
    /\ init_pc = "hook"
    /\ steps' = steps \o <<"ActivityFeedEventHook.install", "build_project_list">>
    /\ init_pc' = "returned"
    /\ UNCHANGED <<pool, connected, postgres_up, redis_up, extensions,
                   attempts>>
    /\ InitOnly

AyonInitStep ==
    ConnectPostgres \/ ConnectRedis \/ Retry \/ InitExtensions
        \/ BuildProjectList

NextInit ==
    \/ PostgresComesUp
    \/ RedisComesUp
    \/ ConnectPostgres
    \/ ConnectRedis
    \/ Retry
    \/ InitExtensions
    \/ BuildProjectList

SpecInit == InitInit /\ [][NextInit]_vars

\* The event loop runs ayon_init whenever it can go on.
SpecInitFair == SpecInit /\ WF_vars(AyonInitStep)

(***************************************************************************)
(* startup_event.  Every call of pre_setup and of setup is a step.  What   *)
(* a call does is given with the version: whether it calls                 *)
(* request_server_restart, and what it raises.                             *)
(***************************************************************************)
\* What a pre_setup or setup call does.
Behaviours ==
    [requests : BOOLEAN, raises : {None, "AssertionError", "ValueError"}]

\* A version of an addon in the library; version numbers are triples.
AddonVersion(addon_name, version, pre_setup, setup) ==
    [name |-> addon_name, version |-> version, pre_setup |-> pre_setup,
     setup |-> setup, restart_requested |-> FALSE]

\* The versions of the library in the order of AddonLibrary.items().
VersionLists ==
    {<<<<"foo", <<1, 0, 0>>>>, <<"foo", <<2, 0, 0>>>>>>,
     <<<<"foo", <<1, 0, 0>>>>, <<"ynputcloud", <<1, 0, 4>>>>>>,
     <<<<"ynputcloud", <<1, 0, 5>>>>, <<"foo", <<1, 0, 0>>>>>>}

\* semver: a version is lower than another.
Lower(a, b) ==
    \E i \in 1..3 : a[i] < b[i] /\ \A j \in 1..(i - 1) : a[j] = b[j]

\* Lines 454-458: setup of ynputcloud below 1.0.5 is skipped.
SetupSkipped(v) == v.name = "ynputcloud" /\ Lower(v.version, <<1, 0, 5>>)

\* The key of a version in bad_addons.
VersionKey(v) == <<v.name, v.version>>

\* What startup_event does is recorded with the version it is done to, or
\* with no version.
NoVersion == <<"", <<0, 0, 0>>>>
Events(whats) == [i \in DOMAIN whats |-> <<whats[i], NoVersion>>]

\* Lines 436-448 and 470-482: the reason recorded for an exception.
Reason(error) ==
    IF error = "AssertionError" THEN [error |-> error]
    ELSE [error |-> error, traceback |-> "traceback"]

InitStartup ==
    /\ RolesIdle /\ SettingsIdle
    /\ AuthIdle /\ WorkerIdle /\ InitIdle
    /\ \E list \in VersionLists :
        addon_versions \in
            {[i \in DOMAIN list |->
                AddonVersion(list[i][1], list[i][2], pre[i], setup[i])] :
             pre \in [DOMAIN list -> Behaviours],
             setup \in [DOMAIN list -> Behaviours]}
    /\ library_restart_requested \in BOOLEAN
    /\ startup_pc = [at |-> "start", i |-> 0, start_event |-> None]
    /\ restart_requested = FALSE
    /\ bad_addons = <<>>
    /\ unloaded = <<>>
    /\ events = <<>>

StartupOnly ==
    UNCHANGED <<rolesVars, settingsVars, authVars, workerVars, initVars>>

\* Lines 391-420: up to the first pre_setup, or to the return when the
\* library asks for a restart.
StartupBegins ==
    /\ startup_pc.at = "start"
    /\ \E start_event \in {None, "event"} :
        startup_pc' =
            [at |-> IF library_restart_requested THEN "returned"
                    ELSE "pre_setup",
             i |-> 1, start_event |-> start_event]
    /\ events' =
        Events(<<"ayon_init", "load_access_groups", "background_workers.start",
                 "server.started">>
                   \o IF library_restart_requested
                          THEN <<"server.restart_requested">> ELSE <<>>)
    /\ UNCHANGED <<addon_versions, library_restart_requested,
                   restart_requested, bad_addons, unloaded>>
    /\ StartupOnly

\* The call of pre_setup or setup of version i: the version may ask for a
\* restart, the call returns or raises; lines 431-448 and 465-482.
Called(i, behaviour, what) ==
    LET v == addon_versions[i]
        asked == v.restart_requested \/ behaviour.requests
    IN  /\ addon_versions' = [addon_versions EXCEPT ![i].restart_requested = asked]
        /\ events' = Append(events, <<what, VersionKey(v)>>)
        /\ IF behaviour.raises = None
            THEN /\ restart_requested' = (restart_requested \/ asked)
                 /\ bad_addons' = bad_addons
            ELSE /\ restart_requested' = restart_requested
                 /\ bad_addons' =
                        With(bad_addons, VersionKey(v), Reason(behaviour.raises))

\* The next position in a loop over the versions.
After(then) ==
    IF startup_pc.i < Len(addon_versions)
        THEN [startup_pc EXCEPT !.i = @ + 1]
        ELSE [startup_pc EXCEPT !.at = then, !.i = 1]

\* Lines 422-448: one turn of the pre_setup loop.
PreSetup ==
    /\ startup_pc.at = "pre_setup"
    /\ Called(startup_pc.i, addon_versions[startup_pc.i].pre_setup, "pre_setup")
    /\ startup_pc' = After("setup")
    /\ UNCHANGED <<library_restart_requested, unloaded>>
    /\ StartupOnly

\* Lines 450-482: one turn of the setup loop.
Setup ==
    /\ startup_pc.at = "setup"
    /\ IF SetupSkipped(addon_versions[startup_pc.i])
        THEN UNCHANGED <<addon_versions, events, restart_requested, bad_addons>>
        ELSE Called(startup_pc.i, addon_versions[startup_pc.i].setup, "setup")
    /\ startup_pc' = After("unload")
    /\ UNCHANGED <<library_restart_requested, unloaded>>
    /\ StartupOnly

\* The keys of bad_addons in some order.
KeyOrders(keys) ==
    {s \in [1..Cardinality(keys) -> keys] :
        \A i, j \in DOMAIN s : i # j => s[i] # s[j]}

\* Lines 484-511: the bad versions are unloaded; then the restart event, or
\* the endpoints and the end of the server.started event.
Finish ==
    /\ startup_pc.at = "unload"
    /\ unloaded' = bad_addons
    /\ \E order \in KeyOrders(DOMAIN bad_addons) :
        events' =
            events
            \o [i \in DOMAIN order |-> <<"unload_addon", order[i]>>]
            \o Events((IF restart_requested
                           THEN <<"server.restart_requested">>
                           ELSE <<"init_addon_endpoints", "init_addon_static",
                                  "init_frontend">>
                                \o IF startup_pc.start_event # None
                                       THEN <<"finished">> ELSE <<>>)
                       \o <<"clear_server_restart_required">>)
    /\ startup_pc' = [startup_pc EXCEPT !.at = "returned"]
    /\ UNCHANGED <<addon_versions, library_restart_requested,
                   restart_requested, bad_addons>>
    /\ StartupOnly

NextStartup == StartupBegins \/ PreSetup \/ Setup \/ Finish

SpecStartup == InitStartup /\ [][NextStartup]_vars

(***************************************************************************)
(* Properties of combine                                                   *)
(***************************************************************************)
Range(s) == {s[i] : i \in DOMAIN s}

\* The registry entries the last call merged.
ResolvedKeys ==
    {Resolve(access_groups, names[i], project) : i \in DOMAIN names} \ {NoKey}

\* The entry the i-th name of the last call resolved to.
ResolvedAt(i) == Resolve(access_groups, names[i], project)

Orderings(s) == {t \in [DOMAIN s -> Range(s)] : Range(t) = Range(s)}

\* C1: a category that one resolved group disables is disabled in the merged
\* permissions, wherever that group stands in the list.
C1_DisabledWins ==
    called =>
        \A perm_name \in Categories :
            (\E key \in ResolvedKeys : ~access_groups[key][perm_name]["enabled"])
                => ~result[perm_name]["enabled"]

\* Three groups resolve, only the middle one disables read, and read is
\* disabled in the result.
C1_Witness ==
    /\ called
    /\ Len(names) = 3
    /\ \A i \in 1..3 : ResolvedAt(i) # NoKey
    /\ access_groups[ResolvedAt(1)]["read"]["enabled"]
    /\ ~access_groups[ResolvedAt(2)]["read"]["enabled"]
    /\ access_groups[ResolvedAt(3)]["read"]["enabled"]
    /\ ~result["read"]["enabled"]

\* C2: every ordering of the names of the last call yields the permissions
\* the call returned.
C2_OrderIndependent ==
    called =>
        \A other \in Orderings(names) :
            combine(access_groups, other, project) = result

\* The list of a category in the merged result, and in a stored group.
ResultItems(perm_name) == result[perm_name][ListField(perm_name)]
StoredItems(key, perm_name) == access_groups[key][perm_name][ListField(perm_name)]

UnionOfResolved(perm_name) ==
    UNION {StoredItems(key, perm_name) : key \in ResolvedKeys}

AllResolvedEnable(perm_name) ==
    \A key \in ResolvedKeys : access_groups[key][perm_name]["enabled"]

\* C3 as stated: for every category that all resolved groups enable, the
\* merged list is the union of the groups' lists.
C3_UnionEveryCategory ==
    called =>
        \A perm_name \in Categories :
            AllResolvedEnable(perm_name)
                => ResultItems(perm_name) = UnionOfResolved(perm_name)

\* C3 amended: the merged list is the union of the groups' lists for every
\* category that all resolved groups enable, except studio_settings when the
\* project is not "_".
C3_Union ==
    called =>
        \A perm_name \in Categories :
            (/\ AllResolvedEnable(perm_name)
             /\ ~(perm_name = "studio_settings" /\ project # "_"))
                => ResultItems(perm_name) = UnionOfResolved(perm_name)

\* Two resolved groups enable read with the lists {1} and {2}, and the merged
\* list is {1, 2}.
C3_Witness ==
    /\ called
    /\ Len(names) = 2
    /\ ResolvedAt(1) # NoKey /\ ResolvedAt(2) # NoKey
    /\ AllResolvedEnable("read")
    /\ StoredItems(ResolvedAt(1), "read") = Items("read", {1})
    /\ StoredItems(ResolvedAt(2), "read") = Items("read", {2})
    /\ ResultItems("read") = Items("read", {1, 2})

\* No name of the last call has an entry for the project or for "_".
NothingResolves ==
    \A i \in DOMAIN names :
        /\ <<names[i], project>> \notin DOMAIN access_groups
        /\ <<names[i], "_">> \notin DOMAIN access_groups

\* C4: with an empty list, or a list of names without an entry, combine
\* returns permissions in which every category is disabled.
C4_NothingResolved ==
    (called /\ NothingResolves) =>
        \A perm_name \in Categories : ~result[perm_name]["enabled"]

\* A call with two names that have no entry, while the registry holds an
\* enabled group under another name.
C4_Witness ==
    /\ called
    /\ Len(names) = 2
    /\ NothingResolves
    /\ \E key \in DOMAIN access_groups : access_groups[key]["read"]["enabled"]
    /\ \A perm_name \in Categories : ~result[perm_name]["enabled"]

\* C5: at a project scope the merged studio_settings is disabled and lists
\* no addon.
C5_NoStudioSettings ==
    (called /\ project # "_") =>
        /\ ~result["studio_settings"]["enabled"]
        /\ result["studio_settings"]["addons"] = {}

\* At project scope, the first and the second resolved group both enable
\* studio_settings with an addon listed.
C5_Witness ==
    /\ called
    /\ project # "_"
    /\ Len(names) = 2
    /\ \A i \in 1..2 :
        /\ ResolvedAt(i) # NoKey
        /\ access_groups[ResolvedAt(i)]["studio_settings"]["enabled"]
        /\ access_groups[ResolvedAt(i)]["studio_settings"]["addons"] # {}
    /\ ~result["studio_settings"]["enabled"]

\* The permissions a stored group gives when it is the only one merged.
Alone(key) ==
    IF project = "_" THEN access_groups[key]
    ELSE [access_groups[key] EXCEPT
             !["studio_settings"] = DefaultCategory("studio_settings")]

\* C6: a single name yields its project entry if there is one, else its
\* studio entry, else nothing; in a list, the studio entry of a name with a
\* project entry contributes nothing, a name with only a studio entry counts
\* as if that entry were its project entry, and a name with no entry counts
\* as if it were not in the list.
C6_Resolution ==
    called =>
        /\ Len(names) = 1 =>
            result =
                IF <<names[1], project>> \in DOMAIN access_groups
                    THEN Alone(<<names[1], project>>)
                ELSE IF <<names[1], "_">> \in DOMAIN access_groups
                    THEN Alone(<<names[1], "_">>)
                ELSE Permissions(<<>>)
        /\ \A i \in DOMAIN names :
            LET here == <<names[i], project>>
                studio == <<names[i], "_">>
            IN  /\ (project # "_" /\ here \in DOMAIN access_groups) =>
                        combine(Without(access_groups, studio), names, project)
                            = result
                /\ (here \notin DOMAIN access_groups
                        /\ studio \in DOMAIN access_groups) =>
                        combine(With(access_groups, here, access_groups[studio]),
                                names, project) = result
                /\ (here \notin DOMAIN access_groups
                        /\ studio \notin DOMAIN access_groups) =>
                        combine(access_groups,
                                SelectSeq(names, LAMBDA n : n # names[i]),
                                project) = result

\* A call at project scope for a name whose project entry and studio entry
\* differ, together with a name that has only a studio entry.
C6_Witness ==
    /\ called
    /\ project = "p1"
    /\ names = <<"b", "a">>
    /\ {<<"a", "p1">>, <<"a", "_">>, <<"b", "_">>} \subseteq DOMAIN access_groups
    /\ access_groups[<<"a", "p1">>]["read"] # access_groups[<<"a", "_">>]["read"]
    /\ access_groups[<<"a", "p1">>]["read"]["enabled"]
    /\ access_groups[<<"b", "_">>]["read"]["enabled"]
    /\ ResultItems("read") =
            StoredItems(<<"a", "p1">>, "read") \cup StoredItems(<<"b", "_">>, "read")

\* C9: a call of combine leaves the registry as it was, and the same call on
\* the registry it leaves returns what it returned.
C9_CombineReadOnly ==
    [][(called' /\ ~called) =>
            /\ access_groups' = access_groups
            /\ combine(access_groups', names', project') = result']_vars

\* A call that merged a second group into the seed: the result differs from
\* the stored group that seeded it.
C9_Witness ==
    /\ called
    /\ Len(names) = 2
    /\ ResolvedAt(1) # NoKey /\ ResolvedAt(2) # NoKey
    /\ result # access_groups[ResolvedAt(1)]
    /\ project = "_"

(***************************************************************************)
(* Properties of the registry under load()                                 *)
(***************************************************************************)
\* Task t is a role request whose load() no other task has overlapped.
LoadsAlone(t) ==
    req[t].kind \in {"save_role", "delete_role"} /\ req[t].alone

\* C7: a get_role that runs while the load() of another request is in
\* progress reads the mapping from before that load or the mapping the load
\* ends with, which is the content of the tables.
C7_ReaderSeesWholeMapping ==
    [][\A t, u \in Tasks :
          (GetRole(t) /\ Loading(u) /\ LoadsAlone(u))
              => access_groups \in {req[u].pre, store}]_vars

\* C8: after a load() that failed, the mapping is the one from before the
\* call.
C8_FailedLoadKeepsMapping ==
    \A t \in Tasks :
        (req[t].pc = "failed" /\ LoadsAlone(t)) => access_groups = req[t].pre

\* C10: when a save_role or delete_role has returned its response and no
\* other request ran from its start on, the registry holds what the tables
\* hold, the saved group with the saved permissions, and not the deleted
\* group.
C10_RegistryEqualsStore ==
    \A t \in Tasks :
        (req[t].pc = "done" /\ LoadsAlone(t)) =>
            LET key == <<req[t].name, req[t].scope>>
            IN  /\ access_groups = store
                /\ req[t].kind = "save_role" =>
                        /\ key \in DOMAIN access_groups
                        /\ access_groups[key] = req[t].data
                /\ req[t].kind = "delete_role" =>
                        key \notin DOMAIN access_groups

\* A delete_role of a project-level group has returned and the studio group
\* of the same name is still in the registry.
C10_Witness ==
    \E t \in Tasks :
        /\ req[t].pc = "done" /\ LoadsAlone(t)
        /\ req[t].kind = "delete_role"
        /\ req[t].scope = "p1"
        /\ DOMAIN access_groups = {<<req[t].name, "_">>}

(***************************************************************************)
(* Properties of get_all_settings                                          *)
(***************************************************************************)
\* The entries of the response and the version that the response gives an
\* addon (None without an entry).
Entries == {response.addons[i] : i \in DOMAIN response.addons}
EntryOf(name) == CHOOSE e \in Entries : e.name = name
EffectiveVersion(name) ==
    IF \E e \in Entries : e.name = name THEN EntryOf(name).version ELSE None

\* The version that a bundle declares for an addon (None without one).
VersionIn(addons, name) == Get(addons, name, None)

\* The studio bundle flagged for the variant of the request.
StudioBundle == bundles[CHOOSE name \in Flagged(args.variant) : TRUE]

\* The request names an existing project and a studio variant and no bundle.
AsksProjectBundle ==
    /\ calls > 0
    /\ args.project_name \in DOMAIN projects
    /\ args.bundle_name = None
    /\ args.variant \in StudioVariants

\* The bundle that the project records for the variant of the request:
\* None when it records none or records null.
RecordedBundle ==
    LET data == projects[args.project_name]
    IN  IF "bundle" \in DOMAIN data /\ args.variant \in DOMAIN data.bundle
        THEN data.bundle[args.variant]
        ELSE None

\* C11: a request for an existing project that records no bundle for the
\* requested studio variant (no record, no entry for the variant, or null),
\* without a bundle name, returns the studio bundle flagged for the variant:
\* its name, its addon versions, and no inherited addon.
C11_StudioBundleUnchanged ==
    (AsksProjectBundle /\ RecordedBundle = None /\ Flagged(args.variant) # {})
        => /\ response.status = 200
           /\ bundles[response.bundle_name] = StudioBundle
           /\ \A name \in AddonNames :
                EffectiveVersion(name) = VersionIn(StudioBundle.addons, name)
           /\ response.inherited_addons = <<>>

\* The project of the request overrides the bundle and the request succeeds.
ProjectOverrides ==
    /\ AsksProjectBundle
    /\ RecordedBundle # None
    /\ response.status = 200

\* C12: with a bundle override of the project, an addon of the studio bundle
\* whose definition disallows the override has the studio bundle's version
\* and is listed in inherited_addons; an addon whose definition allows it
\* has the project bundle's version and is not listed.
C12_InheritedVersions ==
    ProjectOverrides =>
        \A name \in DOMAIN library.definitions :
            IF library.definitions[name].project_can_override_addon_version
            THEN /\ EffectiveVersion(name) =
                        VersionIn(bundles[RecordedBundle].addons, name)
                 /\ name \notin Range(response.inherited_addons)
            ELSE name \in DOMAIN StudioBundle.addons =>
                    /\ EffectiveVersion(name) = StudioBundle.addons[name]
                    /\ name \in Range(response.inherited_addons)

C12_Witness ==
    /\ ProjectOverrides
    /\ "bar" \in DOMAIN library.definitions
    /\ library.definitions["bar"].project_can_override_addon_version
    /\ ~library.definitions["foo"].project_can_override_addon_version
    /\ StudioBundle.addons = [foo |-> "1", bar |-> "1"]
    /\ bundles[RecordedBundle].addons = [foo |-> "2", bar |-> "2"]
    /\ response.inherited_addons = <<"foo">>
    /\ EffectiveVersion("foo") = "1"
    /\ EffectiveVersion("bar") = "2"

\* C13: a request for a studio variant for which no bundle is flagged, and
\* that names no bundle, fails with NotFoundException (status 404): when it
\* asks for the flagged bundle itself and when the project overrides the
\* bundle and the studio bundle is loaded for the merge.
C13_StudioBundleNotSet ==
    (calls > 0 /\ args.bundle_name = None /\ args.variant \in StudioVariants
        /\ Flagged(args.variant) = {})
        => /\ response.status = 404
           /\ response.error = "NotFoundException"

C13_Witness ==
    /\ AsksProjectBundle
    /\ RecordedBundle \in DOMAIN bundles
    /\ Flagged(args.variant) = {}
    /\ response.status = 404
    /\ response.detail = StudioNotSet.detail

\* C14: a request that names a project that does not exist, or a bundle
\* that does not exist, fails with NotFoundException, whatever its other
\* arguments are.
C14_MissingProjectOrBundle ==
    (calls > 0
        /\ \/ args.project_name \notin DOMAIN projects \cup {None}
           \/ args.bundle_name \notin DOMAIN bundles \cup {None})
        => /\ response.status = 404
           /\ response.error = "NotFoundException"

\* C15: a request with a bundle name returns the bundle of that name, with
\* the addon versions of that bundle and no inherited addon, or fails with
\* NotFoundException when there is none, for every variant.
C15_ExplicitBundle ==
    (calls > 0 /\ args.bundle_name # None)
        => IF args.bundle_name \in DOMAIN bundles
           THEN /\ response.status = 200
                /\ response.bundle_name = args.bundle_name
                /\ \A name \in AddonNames :
                    EffectiveVersion(name) =
                        VersionIn(bundles[args.bundle_name].addons, name)
                /\ response.inherited_addons = <<>>
           ELSE /\ response.status = 404
                /\ response.error = "NotFoundException"

\* The request finds its bundle: the project, the bundle and, for a merge,
\* the studio bundle exist.
BundleResolves ==
    LET found == ProjectBundle(args)
    IN  /\ found.error = None
        /\ BundleQuery(args.variant, found.bundle_name) # <<>>
        /\ found.has_project_bundle_override => Flagged(args.variant) # {}

\* The addons of that bundle with their versions, and those of them that
\* have a version.
ResolvedAddons ==
    LET found == ProjectBundle(args)
        brow == BundleQuery(args.variant, found.bundle_name)
    IN  IF found.has_project_bundle_override
        THEN Merged(brow[1].addons, StudioBundle.addons)
        ELSE brow[1].addons
Versioned == {name \in DOMAIN ResolvedAddons : ResolvedAddons[name] # None}
ResolvedAddon(name) == Addon(name, ResolvedAddons[name])

\* The library does not hold the addon; the settings of an addon that it
\* holds raise.
LookupFails(name) ==
    \/ name \notin DOMAIN library.definitions
    \/ ResolvedAddons[name] \notin DOMAIN library.definitions[name].versions
LoadFails(name) ==
    /\ ~LookupFails(name)
    /\ LoadedSettings(args, ResolvedAddon(name)).error # None
Fails(name) == LookupFails(name) \/ LoadFails(name)

\* The settings document that the request loads for an addon ({} for an
\* addon without settings).
LoadedDocument(name) ==
    LET loaded == LoadedSettings(args, ResolvedAddon(name)).value
    IN  IF loaded = <<>> THEN <<>> ELSE loaded[1]

\* C16 as stated: when the lookup or the settings load of an addon of the
\* bundle fails, the request succeeds and the response has, for every other
\* addon with a version that does not fail itself, an entry that holds its
\* settings.
C16_OtherAddonsWithSettings ==
    (calls > 0 /\ BundleResolves /\ \E name \in Versioned : Fails(name))
        => /\ response.status = 200
           /\ \A name \in Versioned :
                ~Fails(name) =>
                    \E e \in Entries :
                        /\ e.name = name
                        /\ e.version = ResolvedAddons[name]
                        /\ e.settings = LoadedDocument(name)

\* C16, amended: when the lookup or the settings load of an addon of the
\* bundle fails, the request succeeds and the response has, for every other
\* addon with a version that does not fail itself, an entry; the entry holds
\* its settings unless the request asks for the summary, and then holds
\* empty settings.
C16_OtherAddons ==
    (calls > 0 /\ BundleResolves /\ \E name \in Versioned : Fails(name))
        => /\ response.status = 200
           /\ \A name \in Versioned :
                ~Fails(name) =>
                    \E e \in Entries :
                        /\ e.name = name
                        /\ e.version = ResolvedAddons[name]
                        /\ ~e.is_broken
                        /\ e.settings =
                            IF args.summary THEN <<>> ELSE LoadedDocument(name)

C16_Witness ==
    /\ calls > 0
    /\ BundleResolves
    /\ Versioned = {"foo", "bar"}
    /\ LoadFails("foo")
    /\ ~Fails("bar")
    /\ response.status = 200
    /\ ~args.summary
    /\ EntryOf("bar").settings = DefaultSettings
    /\ EntryOf("foo").is_broken

\* C17: in a response, every addon of the bundle whose lookup or settings
\* load failed has an entry with is_broken, a reason and empty settings,
\* and no entry of another addon has is_broken.
C17_BrokenEntries ==
    (calls > 0 /\ response.status = 200)
        => /\ \A name \in Versioned :
                Fails(name) =>
                    \E e \in Entries :
                        /\ e.name = name
                        /\ e.is_broken
                        /\ e.reason # None
                        /\ e.settings = <<>>
           /\ \A e \in Entries : ~Fails(e.name) => ~e.is_broken

\* The override documents stored for an addon and the request, and the
\* settings with the layers of the request merged in their order.
StoredStudio(addon) == Get(settings.studio, addon, <<>>)
StoredProject(addon) == Get(settings.project[args.project_name], addon, <<>>)
StoredProjectSite(addon) ==
    Get(Get(settings.project_site, <<args.project_name, args.site_id>>, <<>>),
        addon, <<>>)
StudioSettings(addon) == apply_overrides(DefaultSettings, StoredStudio(addon))
ProjectSettings(addon) ==
    apply_overrides(StudioSettings(addon), StoredProject(addon))
ProjectSiteSettings(addon) ==
    apply_overrides(ProjectSettings(addon), StoredProjectSite(addon))
RequestedSettings(addon) ==
    IF args.project_name = None THEN StudioSettings(addon)
    ELSE IF args.site_id = None THEN ProjectSettings(addon)
    ELSE ProjectSiteSettings(addon)
RequestedSiteSettings(addon) ==
    IF args.site_id # None /\ addon \in DOMAIN settings.site
    THEN <<settings.site[addon]>>
    ELSE <<>>

\* The entries of the addons that loaded and have a settings model.
LoadedEntries ==
    {e \in Entries :
        /\ ~Fails(e.name)
        /\ library.definitions[e.name].versions[e.version].settings_model}

\* C18 as stated: the entry of an addon holds the studio settings when the
\* request names no project (and the site settings when it names a site),
\* the project settings when it names a project and no site, and the
\* project settings with the project-site overrides when it names both.
C18_LayersByRequest ==
    (calls > 0 /\ response.status = 200)
        => \A e \in LoadedEntries :
            /\ e.settings = RequestedSettings(Addon(e.name, e.version))
            /\ e.site_settings = RequestedSiteSettings(Addon(e.name, e.version))

\* C18, amended: unless the request asks for the summary, the entry of an
\* addon holds the studio settings when the request names no project (and
\* the site settings when it names a site), the project settings when it
\* names a project and no site, and the project settings with the
\* project-site overrides when it names both; with the summary the entry
\* holds empty settings.
C18_LayersUnlessSummary ==
    (calls > 0 /\ response.status = 200)
        => \A e \in LoadedEntries :
            /\ e.settings =
                IF args.summary THEN <<>>
                ELSE RequestedSettings(Addon(e.name, e.version))
            /\ e.site_settings = RequestedSiteSettings(Addon(e.name, e.version))

C18_Witness ==
    /\ calls > 0
    /\ response.status = 200
    /\ args.project_name = "p1"
    /\ args.site_id = "s1"
    /\ ~args.summary
    /\ \E e \in LoadedEntries :
        /\ StoredStudio(Addon(e.name, e.version)) = StudioLayer
        /\ StoredProject(Addon(e.name, e.version)) = ProjectLayer
        /\ StoredProjectSite(Addon(e.name, e.version)) = SiteLayer
        /\ e.settings = [x |-> [y |-> 2, z |-> 3], w |-> 3]
        /\ e.site_settings = <<SiteSettings>>

(***************************************************************************)
(* Properties of the settings of an addon                                  *)
(***************************************************************************)
\* The override documents stored for the addon of the calls.
StudioDocument == settings.studio[TheAddon]
ProjectDocument == settings.project[args.project_name][TheAddon]

\* The value of a field under the layers: that of the last layer that sets
\* the field, the default when none does.
SetsNested(document, field) ==
    "x" \in DOMAIN document /\ field \in DOMAIN document.x
LayeredNested(field) ==
    IF SetsNested(ProjectDocument, field) THEN ProjectDocument.x[field]
    ELSE IF SetsNested(StudioDocument, field) THEN StudioDocument.x[field]
    ELSE DefaultSettings.x[field]
LayeredPlain ==
    IF "w" \in DOMAIN ProjectDocument THEN ProjectDocument.w
    ELSE IF "w" \in DOMAIN StudioDocument THEN StudioDocument.w
    ELSE DefaultSettings.w

\* get_project_settings returned settings.
ProjectSettingsReturned ==
    /\ calls > 0
    /\ response.call = "get_project_settings"
    /\ response.returned.error = None
    /\ response.returned.value # <<>>

\* C19: in the settings that get_project_settings returns, every field, of
\* the document and of its nested document, has the value of the last layer
\* that sets it, so a layer changes no field that it does not set and an
\* empty layer changes none; project overrides {x: {y: 2}} over studio
\* overrides {x: {y: 1, z: 3}} give x = {y: 2, z: 3}.
C19_DeepMerge ==
    ProjectSettingsReturned =>
        LET document == response.returned.value[1]
        IN  /\ \A field \in {"y", "z"} : document.x[field] = LayeredNested(field)
            /\ document.w = LayeredPlain
            /\ (/\ StudioDocument = [x |-> [y |-> 1, z |-> 3]]
                /\ ProjectDocument = [x |-> [y |-> 2]])
                    => document.x = [y |-> 2, z |-> 3]

C19_Witness ==
    /\ ProjectSettingsReturned
    /\ StudioDocument = [x |-> [y |-> 1, z |-> 3]]
    /\ ProjectDocument = [x |-> [y |-> 2]]
    /\ response.returned.value = <<[x |-> [y |-> 2, z |-> 3], w |-> 1]>>

C21_AnatomyUpdateOr ==
    (called /\ ResolvedKeys # {} /\ AllResolvedEnable("project_settings"))
        => (result["project_settings"]["anatomy_update"]
                <=> \E key \in ResolvedKeys :
                        access_groups[key]["project_settings"]["anatomy_update"])

\* Two groups resolve, only the first has anatomy_update, and the merged
\* permissions have it.
C21_Witness ==
    /\ called
    /\ Len(names) = 2
    /\ ResolvedAt(1) # NoKey
    /\ ResolvedAt(2) # NoKey
    /\ ResolvedAt(1) # ResolvedAt(2)
    /\ AllResolvedEnable("project_settings")
    /\ access_groups[ResolvedAt(1)]["project_settings"]["anatomy_update"]
    /\ ~access_groups[ResolvedAt(2)]["project_settings"]["anatomy_update"]
    /\ result["project_settings"]["anatomy_update"]

\* The addon of the calls has a settings model.
HasSettingsModel ==
    library.definitions[TheAddon[1]].versions[TheAddon[2]].settings_model

\* The top-level fields that both override documents set.
SetInBoth == DOMAIN StudioDocument \cap DOMAIN ProjectDocument

\* C22: for an addon with a settings model, get_project_settings returns the
\* defaults with the studio overrides applied once and the project overrides
\* applied after them, so a plain field that both set has the project's
\* value; for an addon without a settings model, get_studio_settings and
\* get_project_settings return no settings and raise nothing.
C22_ProjectOverStudio ==
    calls > 0 =>
        IF HasSettingsModel
        THEN ProjectSettingsReturned =>
                /\ response.returned.value =
                    <<apply_overrides(
                        apply_overrides(DefaultSettings, StudioDocument),
                        ProjectDocument)>>
                /\ "w" \in SetInBoth =>
                    response.returned.value[1].w = ProjectDocument.w
                /\ \A field \in {"y", "z"} :
                    (SetsNested(StudioDocument, field)
                        /\ SetsNested(ProjectDocument, field))
                        => response.returned.value[1].x[field]
                                = ProjectDocument.x[field]
        ELSE response.returned = Ok(<<>>)

\* Both documents set w and x.y to different values and the project's stay.
C22_Witness ==
    /\ ProjectSettingsReturned
    /\ StudioDocument = [x |-> [y |-> 2], w |-> 2]
    /\ ProjectDocument = [x |-> [y |-> 3], w |-> 3]
    /\ response.returned.value = <<[x |-> [y |-> 3, z |-> 1], w |-> 3]>>

(***************************************************************************)
(* Properties of overlapping load() calls                                  *)
(***************************************************************************)
\* The load() of task t has returned.
LoadReturned(t) ==
    req[t].pc = "done" /\ req[t].kind \in {"startup", "save_role", "delete_role"}

\* C25: when no request is being served, no load() has failed, and the
\* tables have not changed since the start of a load() that has returned,
\* the registry holds exactly the access groups of the tables.
C25_OverlappingLoads ==
    (/\ \A t \in Tasks : ~Active(t) /\ req[t].pc # "failed"
     /\ \E t \in Tasks : LoadReturned(t) /\ req[t].fresh)
        => access_groups = store

(***************************************************************************)
(* Properties of the endpoint check of dep_current_user                    *)
(***************************************************************************)
\* The registry has nothing to catch up with: no load() has failed, and
\* the tables hold what the registry held before every load() that is about
\* to run or running.
CaughtUp ==
    \A u \in Tasks :
        /\ req[u].pc \notin {"execute", "failed"}
        /\ req[u].pc = "load" => access_groups = store
        /\ Loading(u) => req[u].pre = store

\* C24: a request of a user who is not a manager to an endpoint of a
\* project is refused whenever the stored access groups of the user, merged
\* for the project, enable the endpoints category and do not list the
\* endpoint, also while a load() is in progress; a request of a manager is
\* never refused.
C24_EndpointRefused ==
    [][\A t \in Tasks, endpoint \in Endpoints :
          /\ \A project_name \in ProjectNames :
                LET merged == combine(store, UserGroups, project_name)
                IN  (/\ EndpointCheck(t, FALSE, project_name, endpoint)
                     /\ CaughtUp
                     /\ merged["endpoints"]["enabled"]
                     /\ endpoint \notin merged["endpoints"]["endpoints"])
                        => req'[t].pc = "forbidden"
          /\ \A project_name \in Scopes :
                EndpointCheck(t, TRUE, project_name, endpoint)
                    => req'[t].pc = "done"]_vars

(***************************************************************************)
(* Properties of the authentication                                        *)
(***************************************************************************)
\* The API key of the last request (None: it sent none).
UsedKey == IF Truth(auth.x_api_key) THEN auth.x_api_key ELSE auth.api_key

\* The last request sent an API key that a user holds in apiKeys and that
\* had expired when the request was made.
ExpiredKeySent ==
    /\ auth # <<>>
    /\ Truth(UsedKey)
    /\ \E n \in DOMAIN users :
        \E i \in DOMAIN users[n].data.apiKeys :
            /\ users[n].data.apiKeys[i].key = hash_password(UsedKey)
            /\ Expired(users[n].data.apiKeys[i], auth.at)

\* C23: a request with an API key of a user's apiKeys list whose expires
\* time had passed is rejected with Unauthorized, whether or not an earlier
\* request left a session for the key.
C23_ExpiredKeyRejected ==
    ExpiredKeySent => auth.returned = Raised("Unauthorized")

\* The last request returned a user.
ReturnedUser == auth # <<>> /\ auth.returned.error = None

\* The last request carried a token with a session, or an API key that a
\* user held and that had not expired.
ValidCredentials ==
    \/ auth.had_session
    \/ Truth(UsedKey) /\ user_from_api_key(users, UsedKey, auth.at).error = None

\* x-as-user is of no effect on the requests of users who are no service
\* users: in the present state every request returns, and leaves, with any
\* x-as-user what it does without the header.
HeaderIgnored ==
    \A keys \in SentApiKeys, access_token \in SentTokens, to \in SentTo :
        LET plain == dep_current_user(users, sessions, access_groups, now,
                                      None, keys[1], access_token, keys[2],
                                      to[1], to[2])
        IN  (plain.authenticated # <<>> /\ ~plain.authenticated[1].is_service)
                => \A x_as_user \in SentAsUser :
                        dep_current_user(users, sessions, access_groups, now,
                                         x_as_user, keys[1], access_token,
                                         keys[2], to[1], to[2]) = plain

\* C30: the user returned is the authenticated user unless that user is a
\* service user and x-as-user is sent; for users who are no service users
\* the header changes nothing; and a request that carries neither a valid
\* access token nor a valid API key returns no user.
C30_SudoOnlyForService ==
    /\ ReturnedUser =>
        /\ auth.returned.value # auth.authenticated
            => (auth.authenticated[1].is_service /\ auth.x_as_user # None)
        /\ ~auth.authenticated[1].is_service
            => auth.returned.value = auth.authenticated
    /\ HeaderIgnored
    /\ (auth # <<>> /\ ~ValidCredentials) => ~ReturnedUser

(***************************************************************************)
(* Properties of BackgroundWorker                                          *)
(***************************************************************************)
\* C26: when run() does not suppress cancellation, a shutdown() that waits
\* for the worker returns in the end; once shutdown() has returned,
\* is_running is false and the worker is not started again.
C26_ShutdownReturns ==
    /\ (caller = "waiting" /\ ~suppresses) ~> (caller = "returned")
    /\ [](caller = "returned" => ~is_running)
    /\ [][caller = "returned" => starts' = starts]_vars

\* shutdown() of a worker that had restarted once has returned.
C26_Witness ==
    /\ caller = "returned" /\ ~suppresses /\ ~oneshot
    /\ starts = 2
    /\ worker_task = <<>>

\* An exception of finalize() has ended the worker's task.
FinalizeFailed == worker_task # <<>> /\ worker_task[1].ended = "raised"

\* C27 as stated: a started worker for which shutdown() was not called is
\* running at every moment unless it is oneshot, and a oneshot worker is
\* started once.
C27_NeverStops ==
    (starts > 0 /\ caller = "none") =>
        IF oneshot THEN starts = 1 ELSE is_running

\* C27: a started worker that is not oneshot, for which shutdown() was not
\* called, whose run() has not ended with CancelledError and whose
\* finalize() has not raised, is running at every moment: the end of
\* finalize() starts run() again in the same step; a oneshot worker is
\* started once.
C27_RestartsUnlessCancelled ==
    (starts > 0 /\ caller = "none") =>
        IF oneshot THEN starts = 1
        ELSE (~shutting_down /\ ~FinalizeFailed) => is_running

\* run() has ended and has been started again.
C27_Witness ==
    /\ starts = 2 /\ caller = "none" /\ ~oneshot
    /\ ~shutting_down
    /\ worker_task # <<>> /\ worker_task[1].pc = "run"

(***************************************************************************)
(* Properties of ayon_init                                                 *)
(***************************************************************************)
\* ayon_init has made the call.
Did(step) == \E i \in DOMAIN steps : steps[i] = step

\* C28: ayon_init raises no exception of a connect call; it calls
\* Redis.connect only when Postgres.connect has succeeded; it calls
\* init_extensions, installs the event hook and builds the project list
\* only when both have succeeded; and when each store comes to accept
\* connections, ayon_init returns.
C28_RetriesUntilConnected ==
    /\ [](init_pc # "raised")
    /\ [](Did("Redis.connect") => pool)
    /\ [](\A step \in {"init_extensions", "ActivityFeedEventHook.install",
                       "build_project_list"} :
            Did(step) => (pool /\ connected))
    /\ (<>postgres_up /\ <>redis_up) => <>(init_pc = "returned")

\* ayon_init has returned after failed attempts on both stores.
C28_Witness ==
    /\ init_pc = "returned"
    /\ attempts >= 2
    /\ steps[1] = "Postgres.connect" /\ steps[2] = "Postgres.connect"
    /\ Did("Redis.connect")
    /\ steps[Len(steps)] = "build_project_list"

(***************************************************************************)
(* Properties of startup_event                                             *)
(***************************************************************************)
\* The positions in events of what was done, to a version or to none.
At(what, key) == {i \in DOMAIN events : events[i] = <<what, key>>}
Positions(what) == {i \in DOMAIN events : events[i][1] = what}

\* startup_event has returned after the two loops.
SetUp == startup_pc.at = "returned" /\ ~library_restart_requested

\* A call of the version raised.
Raising(v) ==
    v.pre_setup.raises # None \/ (~SetupSkipped(v) /\ v.setup.raises # None)

\* The versions of the library.
AllVersions == {addon_versions[i] : i \in DOMAIN addon_versions}

\* C29 as stated: every pre_setup comes before every setup; when
\* startup_event has gone through the loops, every version had its
\* pre_setup and, unless skipped, its setup, and every version with a
\* raising call is unloaded with a reason, before the endpoints are
\* initialised; the endpoints are initialised and the server.started event
\* is finished only when no version has asked for a restart.
C29_AddonSetup ==
    /\ \A i \in Positions("pre_setup"), j \in Positions("setup") : i < j
    /\ SetUp =>
        \A v \in AllVersions :
            /\ At("pre_setup", VersionKey(v)) # {}
            /\ ~SetupSkipped(v) => At("setup", VersionKey(v)) # {}
            /\ Raising(v) =>
                /\ VersionKey(v) \in DOMAIN unloaded
                /\ unloaded[VersionKey(v)].error
                    \in {v.pre_setup.raises, v.setup.raises} \ {None}
    /\ \A i \in Positions("unload_addon"), j \in Positions("init_addon_endpoints") :
            i < j
    /\ (Positions("init_addon_endpoints") # {} \/ Positions("finished") # {})
        => \A v \in AllVersions : ~v.restart_requested
====
